---------------------------- MODULE Spec2Model ----------------------------
(***************************************************************************)
(* Model of omega_miya/web_resource/pixiv/helper.py: the resource fetcher  *)
(* _get_pixiv_resource, the batch preview requester _request_preview_model *)
(* and the user-search card / grid composers, as state machines over the   *)
(* fetch tasks that semaphore_gather runs under a bounded permit pool; and *)
(* the extractors parse_pid_from_url, parse_user_searching_result_page,    *)
(* parse_pixivision_show_page and parse_pixivision_article_page, as        *)
(* functions applied to texts and documents drawn from bounded sets.       *)
(* Calls of _get_pixiv_resource against a remote side answering with any  *)
(* status, and invocations of generate_user_searching_result_image naming  *)
(* their file against a clock, have a state machine each.                  *)
(***************************************************************************)
EXTENDS Integers, Sequences, FiniteSets, TLC

VARIABLES
    phase,          \* position of the _request_preview_model call
    preview_name,   \* its argument preview_name
    requests,       \* its argument requests
    task,           \* per wrapped coroutine: "pending" | "fetching" | "done"
    slot,           \* per wrapped coroutine: the value it returned or the exception it raised
    permits,        \* free permits of the call's semaphore
    answer,         \* per wrapped coroutine: what get_bytes produced for it
    calls,          \* per request: number of times its fetch was issued
    completed,      \* indices of the tasks in the order in which they finished
    outcome,        \* what the call handed to its caller
    \* the same call with its tasks counted instead of told apart (large batches)
    poolPhase,      \* position of the call
    poolRequests,   \* len(requests)
    poolPending,    \* wrapped coroutines waiting for a permit
    poolFetching,   \* wrapped coroutines holding a permit, inside get_bytes
    poolSucceeded,  \* wrapped coroutines that returned
    poolFailed,     \* wrapped coroutines that raised
    poolPermits,    \* free permits of the call's semaphore
    \* one call of generate_user_searching_result_image, thumbnail fetches counted
    spPhase,        \* position of the call
    spUsers,        \* users (line 331): per user, len(illusts_thumb_urls)
    spCard,         \* per card coroutine: "pending" | "avatar" | "thumbs" | "compose" | "done" | "failed"
    spCardPermits,  \* free permits of the gather of the cards (line 333)
    spThumbPending, \* per card: thumbnail fetches waiting for a permit
    spThumbFetching,\* per card: thumbnail fetches holding a permit, inside get_bytes
    spThumbDone,    \* per card: thumbnail fetches that returned or raised
    spThumbPermits, \* per card: free permits of the gather of its thumbnails (line 216)
    \* one call of generate_user_searching_result_image, every fetch told apart
    sPhase,         \* position of the call
    sUsers,         \* users (line 331)
    sWidth,         \* the argument width
    sRatio,         \* pixiv_resource_config.user_searching_card_ratio, as <<numerator, denominator>>
    sCard,          \* per card coroutine: "pending" | "avatar" | "thumbs" | "compose" | "done"
    sCardSlot,      \* per card coroutine: the card it returned or the exception it raised
    sCardPermits,   \* free permits of the gather of the cards (line 333)
    sHead,          \* per card: user_head, the avatar bytes
    sThumb,         \* per card, per thumbnail url: "pending" | "fetching" | "done"
    sThumbSlot,     \* per card, per thumbnail url: the bytes returned or the exception raised
    sThumbPermits,  \* per card: free permits of the gather of its thumbnails (line 216)
    sImage,         \* the canvas written to the file
    \* one run of _handle_generate_card on a gathered list of thumbnails
    cPhase,         \* "idle" | "gathered" | "composed"
    cWidth,         \* the argument width
    cRatio,         \* pixiv_resource_config.user_searching_card_ratio, as <<numerator, denominator>>
    cThumb,         \* user_illusts_thumb: per thumbnail url, the bytes returned or the exception raised
    cUndecodable,   \* the byte strings Image.open cannot identify: 0 the avatar, i thumbnail i
    cCard,          \* what _handle_generate_card returned or raised
    \* calls of the extractors (lines 44-209)
    xPhase,         \* "idle" | "called"
    xCall,          \* the extractor called and its arguments
    xResults,       \* what each run of that call returned or raised, in order
    \* calls of _get_pixiv_resource (lines 32-41)
    rPending,       \* the call awaiting get_bytes (line 38), or none
    rLog,           \* per call that ended: its url, what get_bytes produced, what the call produced
    \* invocations of generate_user_searching_result_image writing their image (lines 369-374)
    fNow,           \* the clock, in ticks
    fCalls,         \* per invocation: search_name, position, image_file_name
    fFolder         \* default_preview_img_folder: the files, each with the invocation that wrote it

previewVars == <<phase, preview_name, requests, task, slot, answer, permits, calls, completed, outcome>>

poolVars == <<poolPhase, poolRequests, poolPending, poolFetching, poolSucceeded, poolFailed, poolPermits>>

searchPoolVars == <<spPhase, spUsers, spCard, spCardPermits, spThumbPending, spThumbFetching,
                    spThumbDone, spThumbPermits>>

searchVars == <<sPhase, sUsers, sWidth, sRatio, sCard, sCardSlot, sCardPermits, sHead, sThumb,
                sThumbSlot, sThumbPermits, sImage>>

cardVars == <<cPhase, cWidth, cRatio, cThumb, cUndecodable, cCard>>

extractVars == <<xPhase, xCall, xResults>>

resourceVars == <<rPending, rLog>>

fileVars == <<fNow, fCalls, fFolder>>

vars == <<previewVars, poolVars, searchPoolVars, searchVars, cardVars, extractVars, resourceVars,
          fileVars>>

-----------------------------------------------------------------------------
(* Bounds of the model *)

MaxRequests == 3

MaxPoolRequests == 32

MaxPoolUsers == 2

MaxPoolThumbs == 11

MaxUsers == 2

MaxThumbs == 1
\* thumbnail urls of the user whose card is composed on its own
MaxCardThumbs == 5
\* runs of one extractor call on the same arguments
MaxRuns == 2
\* items of a parsed page: user items, article cards, works
MaxItems == 2
\* anchors and attributes that a parsed page lacks
MaxMissing == 1
\* length of a list of nested items (thumbnails, tags) that is not empty
NestedItems == 2
\* calls of _get_pixiv_resource in a run
MaxFetches == 2
\* invocations of generate_user_searching_result_image writing an image
MaxInvocations == 2
\* how far the clock runs, in ticks
MaxTicks == 3

-----------------------------------------------------------------------------
(* Inputs and the remote side *)

PreviewNames == {"ranking"}

\* PixivArtworkPreviewRequestModel: desc_text, request_url
PixivArtworkPreviewRequestModel ==
    {[desc_text |-> "d1", request_url |-> "u1"], [desc_text |-> "d2", request_url |-> "u2"]}

RequestLists == UNION {[1..n -> PixivArtworkPreviewRequestModel] : n \in 0..MaxRequests}

ErrorStatuses == {404}

\* What HttpFetcher.get_bytes can produce for a url: a response object carrying
\* a status and a body, or an exception when the call cannot complete.
FetcherOutcomes(url) ==
    {[kind |-> "response", status |-> 200, result |-> <<"bytes", url>>]}
    \cup {[kind |-> "response", status |-> s, result |-> <<"errorpage", s>>] : s \in ErrorStatuses}
    \cup {[kind |-> "exception", error |-> "TransportError"]}

Raise(e) == [raised |-> TRUE, error |-> e]

Return(v) == [raised |-> FALSE, value |-> v]

NoResult == [raised |-> FALSE, value |-> "none"]

NoCall == [fn |-> "none"]

NoAnswer == [kind |-> "none"]

-----------------------------------------------------------------------------
(* The functions of helper.py *)

\* (variant: the body handed back for every status below 500)
_get_pixiv_resource_client_errors_pass(_content) ==
    IF _content.kind = "exception" THEN Raise(<<_content.error>>)
    ELSE IF _content.status >= 500
         THEN Raise(<<"PixivNetworkError", _content.status>>)
         ELSE Return(_content.result)

\* _get_pixiv_resource: the body of a 200 response, PixivNetworkError otherwise;
\* an exception of get_bytes passes through the await.
_get_pixiv_resource(_content) ==
    IF _content.kind = "exception" THEN Raise(<<_content.error>>)
    ELSE IF _content.status # 200
         THEN Raise(<<"PixivNetworkError", _content.status>>)
         ELSE Return(_content.result)

\* (variant: a fetch that raised issued once more)
ReissueOnFailure(result, n) == result.raised /\ n < 2

\* Neither _get_pixiv_resource nor _request_preview_body loops: each ends in
\* its return or in the exception, so a fetch is never issued a second time.
\* (result: what the coroutine produced; n: the fetches issued for it so far)
Reissue(result, n) == FALSE

\* (variant: a failed fetch answered with an empty thumbnail instead of raising)
_request_preview_body_swallow(request, _content) ==
    LET _request_data == _get_pixiv_resource(_content)
    IN  Return([desc_text |-> request.desc_text,
                preview_thumb |-> IF _request_data.raised THEN <<"empty">>
                                  ELSE _request_data.value])

\* _request_preview_body: the fetched bytes wrapped with the request's desc_text
_request_preview_body(request, _content) ==
    LET _request_data == _get_pixiv_resource(_content)
    IN  IF _request_data.raised THEN _request_data
        ELSE Return([desc_text |-> request.desc_text, preview_thumb |-> _request_data.value])

\* semaphore_gather's result: one entry per task in task order, a raised
\* exception kept as the entry (return_exceptions) and, with filter_exception,
\* left out.
IsException(r) == r.raised

semaphore_gather(results, filter_exception) ==
    IF filter_exception
    THEN SelectSeq(results, LAMBDA r : ~IsException(r))
    ELSE results

\* PixivArtworkPreviewModel(preview_name=, count=, previews=)
PixivArtworkPreviewModel(name, count, previews) ==
    IF \E i \in 1..Len(previews) : IsException(previews[i])
    THEN Raise(<<"ValidationError">>)
    ELSE Return([preview_name |-> name, count |-> count,
                 previews |-> [i \in 1..Len(previews) |-> previews[i].value]])

Reverse(seq) == [i \in 1..Len(seq) |-> seq[Len(seq) + 1 - i]]

\* (variant: the gathered list handed on in reverse)
_request_preview_model_reversed(name, reqs, results) ==
    LET _requests_data == Reverse(semaphore_gather(results, TRUE))
        count == Len(_requests_data)
    IN  PixivArtworkPreviewModel(name, count, _requests_data)

\* (variant: count taken from the requests instead of the gathered list)
_request_preview_model_count_requests(name, reqs, results) ==
    LET _requests_data == semaphore_gather(results, TRUE)
        count == Len(reqs)
    IN  PixivArtworkPreviewModel(name, count, _requests_data)

\* (variant: filter_exception left at its default)
_request_preview_model_no_filter(name, reqs, results) ==
    LET _requests_data == semaphore_gather(results, FALSE)
        count == Len(_requests_data)
    IN  PixivArtworkPreviewModel(name, count, _requests_data)

\* (variant: an empty gathered list treated as an error)
_request_preview_model_raise_on_empty(name, reqs, results) ==
    LET _requests_data == semaphore_gather(results, TRUE)
        count == Len(_requests_data)
    IN  IF count = 0 THEN Raise(<<"PixivNetworkError", "empty">>)
        ELSE PixivArtworkPreviewModel(name, count, _requests_data)

\* _request_preview_model after the gather: lines 388-391
_request_preview_model(name, reqs, results) ==
    LET _requests_data == semaphore_gather(results, TRUE)
        count == Len(_requests_data)
    IN  PixivArtworkPreviewModel(name, count, _requests_data)

\* semaphore_num of the gather of the cards: line 333
CardSemaphoreNum == 10

\* (variant: one permit more)
ThumbSemaphoreNumPlusOne == 10 + 1

\* semaphore_num of the gather of one card's thumbnails: line 218
ThumbSemaphoreNum == 10

\* (variant: one permit more)
PreviewSemaphoreNumPlusOne == 30 + 1

\* semaphore_num of the gather of _request_preview_model: line 388
PreviewSemaphoreNum == 30

-----------------------------------------------------------------------------
(* The permit pool of semaphore_gather *)

\* a wrapped coroutine takes a permit before it runs, and waits while none is free
CanAcquire(p) == p > 0

SemaphoreAcquire(p) == p - 1

\* (variant: the permit given back only when the coroutine returned)
PermitsAfterExitOnReturnOnly(p, raised) == IF raised THEN p ELSE p + 1

\* the permit is given back on every exit of the coroutine, return or raise
PermitsAfterExit(p, raised) == p + 1

-----------------------------------------------------------------------------
(* The call of _request_preview_model as a state machine *)

Tasks == 1..Len(requests)

PreviewIdle ==
    /\ phase = "idle"
    /\ preview_name = "none"
    /\ requests = <<>>
    /\ task = <<>>
    /\ slot = <<>>
    /\ answer = <<>>
    /\ permits = 0
    /\ calls = <<>>
    /\ completed = <<>>
    /\ outcome = NoResult

\* line 387 and the start of semaphore_gather: one wrapped coroutine per request
CallRequestPreviewModel ==
    /\ phase = "idle"
    /\ \E name \in PreviewNames, reqs \in RequestLists :
        /\ preview_name' = name
        /\ requests' = reqs
        /\ task' = [i \in 1..Len(reqs) |-> "pending"]
        /\ slot' = [i \in 1..Len(reqs) |-> NoResult]
        /\ answer' = [i \in 1..Len(reqs) |-> NoAnswer]
        /\ calls' = [i \in 1..Len(reqs) |-> 0]
    /\ permits' = PreviewSemaphoreNum
    /\ phase' = "gathering"
    /\ UNCHANGED <<completed, outcome, poolVars, searchPoolVars, searchVars, cardVars, extractVars,
                   resourceVars, fileVars>>

\* a wrapped coroutine obtains a permit and enters _request_preview_body
StartFetch(i) ==
    /\ phase = "gathering"
    /\ task[i] = "pending"
    /\ CanAcquire(permits)
    /\ permits' = SemaphoreAcquire(permits)
    /\ task' = [task EXCEPT ![i] = "fetching"]
    /\ calls' = [calls EXCEPT ![i] = @ + 1]
    /\ UNCHANGED <<phase, preview_name, requests, slot, answer, completed, outcome, poolVars, searchPoolVars, searchVars,
                   cardVars, extractVars, resourceVars, fileVars>>

\* get_bytes resolves; the coroutine returns or raises and gives its permit back
FinishFetch(i) ==
    /\ phase = "gathering"
    /\ task[i] = "fetching"
    /\ \E _content \in FetcherOutcomes(requests[i].request_url) :
        LET result == _request_preview_body(requests[i], _content)
        IN  IF Reissue(result, calls[i])
            THEN /\ calls' = [calls EXCEPT ![i] = @ + 1]
                 /\ UNCHANGED <<task, slot, answer, permits, completed>>
            ELSE /\ slot' = [slot EXCEPT ![i] = result]
                 /\ answer' = [answer EXCEPT ![i] = _content]
                 /\ task' = [task EXCEPT ![i] = "done"]
                 /\ permits' = PermitsAfterExit(permits, result.raised)
                 /\ completed' = Append(completed, i)
                 /\ UNCHANGED calls
    /\ UNCHANGED <<phase, preview_name, requests, outcome, poolVars, searchPoolVars, searchVars,
                   cardVars, extractVars, resourceVars, fileVars>>

\* every task is done: lines 389-391
ReturnRequestPreviewModel ==
    /\ phase = "gathering"
    /\ \A i \in Tasks : task[i] = "done"
    /\ outcome' = _request_preview_model(preview_name, requests, slot)
    /\ phase' = "returned"
    /\ UNCHANGED <<preview_name, requests, task, slot, answer, permits, calls, completed, poolVars, searchPoolVars, searchVars,
                   cardVars, extractVars, resourceVars, fileVars>>

-----------------------------------------------------------------------------
(* The same call, its tasks counted: the permit pool under large batches *)

PoolIdle ==
    /\ poolPhase = "idle"
    /\ poolRequests = 0
    /\ poolPending = 0
    /\ poolFetching = 0
    /\ poolSucceeded = 0
    /\ poolFailed = 0
    /\ poolPermits = 0

\* line 387 and the start of semaphore_gather
PoolCall ==
    /\ poolPhase = "idle"
    /\ \E n \in 0..MaxPoolRequests :
        /\ poolRequests' = n
        /\ poolPending' = n
    /\ poolPermits' = PreviewSemaphoreNum
    /\ poolPhase' = "gathering"
    /\ UNCHANGED <<poolFetching, poolSucceeded, poolFailed, previewVars, searchPoolVars, searchVars,
                   cardVars, extractVars, resourceVars, fileVars>>

\* one waiting coroutine obtains a permit and enters _request_preview_body
PoolStartFetch ==
    /\ poolPhase = "gathering"
    /\ poolPending > 0
    /\ CanAcquire(poolPermits)
    /\ poolPermits' = SemaphoreAcquire(poolPermits)
    /\ poolPending' = poolPending - 1
    /\ poolFetching' = poolFetching + 1
    /\ UNCHANGED <<poolPhase, poolRequests, poolSucceeded, poolFailed, previewVars, searchPoolVars, searchVars,
                   cardVars, extractVars, resourceVars, fileVars>>

\* one fetch answers 200: its coroutine returns
PoolFetchReturns ==
    /\ poolPhase = "gathering"
    /\ poolFetching > 0
    /\ poolFetching' = poolFetching - 1
    /\ poolSucceeded' = poolSucceeded + 1
    /\ poolPermits' = PermitsAfterExit(poolPermits, FALSE)
    /\ UNCHANGED <<poolPhase, poolRequests, poolPending, poolFailed, previewVars, searchPoolVars, searchVars,
                   cardVars, extractVars, resourceVars, fileVars>>

\* one fetch fails: its coroutine raises
PoolFetchRaises ==
    /\ poolPhase = "gathering"
    /\ poolFetching > 0
    /\ poolFetching' = poolFetching - 1
    /\ poolFailed' = poolFailed + 1
    /\ poolPermits' = PermitsAfterExit(poolPermits, TRUE)
    /\ UNCHANGED <<poolPhase, poolRequests, poolPending, poolSucceeded, previewVars, searchPoolVars, searchVars,
                   cardVars, extractVars, resourceVars, fileVars>>

\* every coroutine has exited: lines 389-391
PoolReturn ==
    /\ poolPhase = "gathering"
    /\ poolPending = 0
    /\ poolFetching = 0
    /\ poolPhase' = "returned"
    /\ UNCHANGED <<poolRequests, poolPending, poolFetching, poolSucceeded, poolFailed,
                   poolPermits, previewVars, searchPoolVars, searchVars, cardVars, extractVars,
                   resourceVars, fileVars>>

-----------------------------------------------------------------------------
(* generate_user_searching_result_image: the fetches of the cards, counted *)

\* len(illusts_thumb_urls) of a user of the search result: none, the four of
\* a result page, or more than a pool has permits
PoolThumbCounts == {0, 4, MaxPoolThumbs}

\* the search results of the model: at most one user has more thumbnails than a
\* pool has permits
PoolSearchings ==
    {u \in UNION {[1..n -> PoolThumbCounts] : n \in 0..MaxPoolUsers} :
        Cardinality({k \in 1..Len(u) : u[k] = MaxPoolThumbs}) <= 1}

\* seq[:n]
Take(seq, n) == [i \in 1..(IF n < Len(seq) THEN n ELSE Len(seq)) |-> seq[i]]

SpCards == 1..Len(spUsers)

SearchPoolIdle ==
    /\ spPhase = "idle"
    /\ spUsers = <<>>
    /\ spCard = <<>>
    /\ spCardPermits = 0
    /\ spThumbPending = <<>>
    /\ spThumbFetching = <<>>
    /\ spThumbDone = <<>>
    /\ spThumbPermits = <<>>

\* lines 331-333: the users cut to user_searching_card_num (configuration, an
\* input here), one card coroutine per user, the gather of the cards started
SpCall ==
    /\ spPhase = "idle"
    /\ \E searching_users \in PoolSearchings, user_searching_card_num \in 1..MaxPoolUsers :
        LET users == Take(searching_users, user_searching_card_num)
        IN  /\ spUsers' = users
            /\ spCard' = [c \in 1..Len(users) |-> "pending"]
            /\ spThumbPending' = [c \in 1..Len(users) |-> 0]
            /\ spThumbFetching' = [c \in 1..Len(users) |-> 0]
            /\ spThumbDone' = [c \in 1..Len(users) |-> 0]
            /\ spThumbPermits' = [c \in 1..Len(users) |-> 0]
    /\ spCardPermits' = CardSemaphoreNum
    /\ spPhase' = "gathering"
    /\ UNCHANGED <<previewVars, poolVars, searchVars, cardVars, extractVars, resourceVars, fileVars>>

\* a card coroutine obtains a permit of the cards' pool and awaits its avatar: line 215
SpStartCard(c) ==
    /\ spPhase = "gathering"
    /\ spCard[c] = "pending"
    /\ CanAcquire(spCardPermits)
    /\ spCardPermits' = SemaphoreAcquire(spCardPermits)
    /\ spCard' = [spCard EXCEPT ![c] = "avatar"]
    /\ UNCHANGED <<spPhase, spUsers, spThumbPending, spThumbFetching, spThumbDone,
                   spThumbPermits, previewVars, poolVars, searchVars, cardVars, extractVars,
                   resourceVars, fileVars>>

\* the avatar fetch resolves: the card raises, or starts the gather of its
\* thumbnails with a pool of its own (lines 215-219)
SpAvatarDone(c) ==
    /\ spPhase = "gathering"
    /\ spCard[c] = "avatar"
    /\ \E raised \in BOOLEAN :
        IF raised
        THEN /\ spCard' = [spCard EXCEPT ![c] = "failed"]
             /\ spCardPermits' = PermitsAfterExit(spCardPermits, TRUE)
             /\ UNCHANGED <<spThumbPending, spThumbPermits>>
        ELSE /\ spCard' = [spCard EXCEPT ![c] = "thumbs"]
             /\ spThumbPending' = [spThumbPending EXCEPT ![c] = spUsers[c]]
             /\ spThumbPermits' = [spThumbPermits EXCEPT ![c] = ThumbSemaphoreNum]
             /\ UNCHANGED spCardPermits
    /\ UNCHANGED <<spPhase, spUsers, spThumbFetching, spThumbDone, previewVars, poolVars, searchVars,
                   cardVars, extractVars, resourceVars, fileVars>>

\* one thumbnail fetch of card c obtains a permit of the card's pool
SpStartThumb(c) ==
    /\ spPhase = "gathering"
    /\ spCard[c] = "thumbs"
    /\ spThumbPending[c] > 0
    /\ CanAcquire(spThumbPermits[c])
    /\ spThumbPermits' = [spThumbPermits EXCEPT ![c] = SemaphoreAcquire(@)]
    /\ spThumbPending' = [spThumbPending EXCEPT ![c] = @ - 1]
    /\ spThumbFetching' = [spThumbFetching EXCEPT ![c] = @ + 1]
    /\ UNCHANGED <<spPhase, spUsers, spCard, spCardPermits, spThumbDone, previewVars, poolVars, searchVars,
                   cardVars, extractVars, resourceVars, fileVars>>

\* one thumbnail fetch of card c returns or raises
SpThumbDone(c) ==
    /\ spPhase = "gathering"
    /\ spCard[c] = "thumbs"
    /\ spThumbFetching[c] > 0
    /\ \E raised \in BOOLEAN :
        spThumbPermits' = [spThumbPermits EXCEPT ![c] = PermitsAfterExit(@, raised)]
    /\ spThumbFetching' = [spThumbFetching EXCEPT ![c] = @ - 1]
    /\ spThumbDone' = [spThumbDone EXCEPT ![c] = @ + 1]
    /\ UNCHANGED <<spPhase, spUsers, spCard, spCardPermits, spThumbPending, previewVars, poolVars, searchVars,
                   cardVars, extractVars, resourceVars, fileVars>>

\* the gather of the thumbnails returns; the card goes on to run_sync: line 325
SpThumbsGathered(c) ==
    /\ spPhase = "gathering"
    /\ spCard[c] = "thumbs"
    /\ spThumbPending[c] = 0
    /\ spThumbFetching[c] = 0
    /\ spCard' = [spCard EXCEPT ![c] = "compose"]
    /\ UNCHANGED <<spPhase, spUsers, spCardPermits, spThumbPending, spThumbFetching,
                   spThumbDone, spThumbPermits, previewVars, poolVars, searchVars,
                      cardVars, extractVars, resourceVars, fileVars>>

\* _handle_generate_card returns the card, or raises when Image.open cannot
\* decode the fetched bytes; the card coroutine exits
SpComposeCard(c) ==
    /\ spPhase = "gathering"
    /\ spCard[c] = "compose"
    /\ \E decodable \in BOOLEAN :
        /\ spCard' = [spCard EXCEPT ![c] = IF decodable THEN "done" ELSE "failed"]
        /\ spCardPermits' = PermitsAfterExit(spCardPermits, ~decodable)
    /\ UNCHANGED <<spPhase, spUsers, spThumbPending, spThumbFetching, spThumbDone,
                   spThumbPermits, previewVars, poolVars, searchVars, cardVars, extractVars,
                   resourceVars, fileVars>>

\* every card coroutine has exited: lines 335-374
SpReturn ==
    /\ spPhase = "gathering"
    /\ \A c \in SpCards : spCard[c] \in {"done", "failed"}
    /\ spPhase' = "written"
    /\ UNCHANGED <<spUsers, spCard, spCardPermits, spThumbPending, spThumbFetching,
                   spThumbDone, spThumbPermits, previewVars, poolVars, searchVars,
                      cardVars, extractVars, resourceVars, fileVars>>

-----------------------------------------------------------------------------
(* generate_user_searching_result_image: every fetch told apart *)

\* PixivUserSearchingBody: the user at position k of the search result, with n
\* thumbnail urls
PixivUserSearchingBody(k, n) ==
    [user_id |-> k, user_head_url |-> <<"head", k>>,
     illusts_thumb_urls |-> [i \in 1..n |-> <<"thumb", k, i>>]]

Searchings ==
    UNION {{[k \in 1..n |-> PixivUserSearchingBody(k, t[k])] : t \in [1..n -> {0, MaxThumbs}]}
           : n \in 0..MaxUsers}

Widths == {400, 1600}

Ratios == {<<27, 4>>}

\* what the font measures as the height of the title text
TitleHeights == {1, 44}

\* int(a / b) for a >= 0 and b = <<numerator, denominator>> > 0
IntDiv(a, b) == (a * b[2]) \div b[1]

\* The byte strings _handle_generate_card hands to Image.open: the avatar
\* (index 0) and those of the first four thumbnails that were fetched.
Opened(user_illusts_thumb) ==
    {0} \cup {i \in 1..Len(Take(user_illusts_thumb, 4)) : ~IsException(user_illusts_thumb[i])}

\* the widths a card is asked for
CardWidths == {100, 400, 1600}

\* what the fonts measure as the height of a line of text (getsize)
MeasuredHeights == {1, 40}

\* _name_text_h, _uid_text_h, _count_text_h: lines 265, 267, 275
Measures == [name_h : MeasuredHeights, uid_h : MeasuredHeights, count_h : MeasuredHeights]

\* the measures taken in the runs that compose the grid
GridMeasures == {[name_h |-> 40, uid_h |-> 1, count_h |-> 40]}

\* (variant: an avatar of 197 pixels whatever the height of the card)
CardLayoutFixedAvatar(_height) ==
    LET _user_head_width == 197
    IN  [font_main_size |-> _height \div 8,
         font_desc_size |-> _height \div 12,
         user_head_width |-> _user_head_width,
         thumb_img_width |-> _user_head_width,
         spacing_width |-> (_height - _user_head_width) \div 2,
         desc_wrap_width |-> (_height * 3) \div 2]

\* the sizes of the card, lines 226-236 and 283: int(_height / 8),
\* int(_height / 12), int(_height * 5 / 6), int((_height - _user_head_width) / 2),
\* int(_height * 1.5)
CardLayout(_height) ==
    LET _user_head_width == (_height * 5) \div 6
    IN  [font_main_size |-> _height \div 8,
         font_desc_size |-> _height \div 12,
         user_head_width |-> _user_head_width,
         thumb_img_width |-> _user_head_width,
         spacing_width |-> (_height - _user_head_width) \div 2,
         desc_wrap_width |-> (_height * 3) \div 2]

\* the avatar pasted on the card: lines 250-257
UserHead(user_head, _height) ==
    LET layout == CardLayout(_height)
    IN  [im |-> user_head,
         size |-> <<layout.user_head_width, layout.user_head_width>>,
         mask |-> [size |-> <<layout.user_head_width, layout.user_head_width>>,
                   ellipse |-> <<0, 0, layout.user_head_width, layout.user_head_width>>],
         box |-> <<layout.spacing_width * 2, layout.spacing_width>>]

\* (variant: the text blocks one font size apart, whatever the fonts measure)
TextBlocksFixedOffsets(_height, measured) ==
    LET layout == CardLayout(_height)
        _spacing_width == layout.spacing_width
        x == _spacing_width * 4 + layout.user_head_width
    IN  [name |-> [xy |-> <<x, (_spacing_width * 3) \div 2>>, height |-> measured.name_h],
         uid |-> [xy |-> <<x, layout.font_main_size + (_spacing_width * 7) \div 4>>,
                  height |-> measured.uid_h],
         count |-> [xy |-> <<x, layout.font_main_size + layout.font_desc_size
                                    + (_spacing_width * 9) \div 4>>,
                    height |-> measured.count_h],
         desc |-> [xy |-> <<x, layout.font_main_size + 2 * layout.font_desc_size
                                   + (_spacing_width * 11) \div 4>>]]

\* the four text blocks drawn on the card, lines 259-289: the name at
\* int(_spacing_width * 1.5), the uid line at _name_text_h + int(_spacing_width * 1.75),
\* the count line at _name_text_h + _uid_text_h + int(_spacing_width * 2.25), the
\* description at _name_text_h + _uid_text_h + _count_text_h + int(_spacing_width * 2.75)
TextBlocks(_height, measured) ==
    LET layout == CardLayout(_height)
        _spacing_width == layout.spacing_width
        x == _spacing_width * 4 + layout.user_head_width
    IN  [name |-> [xy |-> <<x, (_spacing_width * 3) \div 2>>, height |-> measured.name_h],
         uid |-> [xy |-> <<x, measured.name_h + (_spacing_width * 7) \div 4>>,
                  height |-> measured.uid_h],
         count |-> [xy |-> <<x, measured.name_h + measured.uid_h
                                    + (_spacing_width * 9) \div 4>>,
                    height |-> measured.count_h],
         desc |-> [xy |-> <<x, measured.name_h + measured.uid_h + measured.count_h
                                   + (_spacing_width * 11) \div 4>>]]

\* the tile pasted for the thumbnail at position _index (from 0) of the card:
\* lines 233-236 (sizes) and 318-322 (box)
ThumbTile(_thumb_img, _index, _height) ==
    LET _user_head_width == (_height * 5) \div 6
        _thumb_img_width == _user_head_width
        _spacing_width == (_height - _user_head_width) \div 2
    IN  [im |-> _thumb_img,
         size |-> <<_thumb_img_width, _thumb_img_width>>,
         box |-> <<_spacing_width * 6 + _user_head_width + (_height * 3) \div 2
                       + _index * (_thumb_img_width + _spacing_width),
                   _spacing_width>>]

\* (variant: the thumbnails that were fetched pasted side by side, the failed
\* ones at the end)
_handle_generate_card_shifting(user, width, ratio, user_head, user_illusts_thumb, undecodable, measured) ==
    LET _height == IntDiv(width, ratio)
        shown == Take(user_illusts_thumb, 4)
        kept == SelectSeq(shown, LAMBDA r : ~IsException(r))
    IN  IF undecodable # {} THEN Raise(<<"UnidentifiedImageError">>)
        ELSE Return([user_id |-> user.user_id,
                     size |-> <<width, _height>>,
                     layout |-> CardLayout(_height),
                     head |-> UserHead(user_head, _height),
                     texts |-> TextBlocks(_height, measured),
                     tiles |-> [i \in 1..Len(shown) |->
                                   ThumbTile(IF i <= Len(kept) THEN kept[i].value
                                             ELSE "placeholder",
                                             i - 1, _height)]])

\* (variant: a tile for every thumbnail gathered)
_handle_generate_card_tiling_all(user, width, ratio, user_head, user_illusts_thumb, undecodable, measured) ==
    LET _height == IntDiv(width, ratio)
        shown == user_illusts_thumb
    IN  IF 0 \in undecodable THEN Raise(<<"UnidentifiedImageError">>)
        ELSE IF \E i \in 1..Len(shown) : ~IsException(shown[i]) /\ i \in undecodable
             THEN Raise(<<"UnidentifiedImageError">>)
             ELSE Return([user_id |-> user.user_id,
                          size |-> <<width, _height>>,
                          layout |-> CardLayout(_height),
                          head |-> UserHead(user_head, _height),
                          texts |-> TextBlocks(_height, measured),
                          tiles |-> [i \in 1..Len(shown) |->
                                        ThumbTile(IF IsException(shown[i]) THEN "placeholder"
                                                  ELSE shown[i].value,
                                                  i - 1, _height)]])

\* _handle_generate_card: the avatar, the four text blocks and the first four
\* thumbnails put on the card, a placeholder for a thumbnail whose fetch raised;
\* raises when Image.open cannot decode one of the byte strings (undecodable:
\* their indices); measured: the heights the fonts measure for the text lines
_handle_generate_card(user, width, ratio, user_head, user_illusts_thumb, undecodable, measured) ==
    LET _height == IntDiv(width, ratio)
        shown == Take(user_illusts_thumb, 4)
    IN  IF 0 \in undecodable THEN Raise(<<"UnidentifiedImageError">>)
        ELSE IF \E i \in 1..Len(shown) : ~IsException(shown[i]) /\ i \in undecodable
             THEN Raise(<<"UnidentifiedImageError">>)
             ELSE Return([user_id |-> user.user_id,
                          size |-> <<width, _height>>,
                          layout |-> CardLayout(_height),
                          head |-> UserHead(user_head, _height),
                          texts |-> TextBlocks(_height, measured),
                          tiles |-> [i \in 1..Len(shown) |->
                                        ThumbTile(IF IsException(shown[i]) THEN "placeholder"
                                                  ELSE shown[i].value,
                                                  i - 1, _height)]])

\* (variant: the canvas sized by the users requested)
_handle_generate_image_sized_by_users(users, cards, width, ratio, _title_text_h) ==
    LET _card_height == IntDiv(width, ratio)
        _spacing_width == _card_height \div 12
        _height == (_card_height + _spacing_width) * Len(users) + _title_text_h + 3 * _spacing_width
    IN  [size |-> <<width + _spacing_width * 2, _height>>,
         title |-> [xy |-> <<_spacing_width * 2, _spacing_width>>, height |-> _title_text_h],
         pastes |-> [i \in 1..Len(cards) |->
                       [im |-> cards[i],
                        box |-> <<_spacing_width,
                                  _spacing_width * 2 + _title_text_h
                                      + (_card_height + _spacing_width) * (i - 1)>>]]]

\* (variant: no canvas when no card was produced)
_handle_generate_image_nothing_without_cards(users, cards, width, ratio, _title_text_h) ==
    LET _card_height == IntDiv(width, ratio)
        _spacing_width == _card_height \div 12
        _height == (_card_height + _spacing_width) * Len(cards) + _title_text_h + 3 * _spacing_width
    IN  IF Len(cards) = 0
        THEN [size |-> <<0, 0>>,
              title |-> [xy |-> <<0, 0>>, height |-> 0],
              pastes |-> <<>>]
        ELSE [size |-> <<width + _spacing_width * 2, _height>>,
              title |-> [xy |-> <<_spacing_width * 2, _spacing_width>>, height |-> _title_text_h],
              pastes |-> [i \in 1..Len(cards) |->
                            [im |-> cards[i],
                             box |-> <<_spacing_width,
                                       _spacing_width * 2 + _title_text_h
                                           + (_card_height + _spacing_width) * (i - 1)>>]]]

\* (variant: the rows counted from the top margin, the title not reckoned in)
_handle_generate_image_over_title(users, cards, width, ratio, _title_text_h) ==
    LET _card_height == IntDiv(width, ratio)
        _spacing_width == _card_height \div 12
        _height == (_card_height + _spacing_width) * Len(cards) + _title_text_h + 3 * _spacing_width
    IN  [size |-> <<width + _spacing_width * 2, _height>>,
         title |-> [xy |-> <<_spacing_width * 2, _spacing_width>>, height |-> _title_text_h],
         pastes |-> [i \in 1..Len(cards) |->
                       [im |-> cards[i],
                        box |-> <<_spacing_width,
                                  _spacing_width + (_card_height + _spacing_width) * (i - 1)>>]]]

\* _handle_generate_image: the canvas, the title and the cards pasted one below
\* the other (lines 335-362)
_handle_generate_image(users, cards, width, ratio, _title_text_h) ==
    LET _card_height == IntDiv(width, ratio)
        _spacing_width == _card_height \div 12
        _height == (_card_height + _spacing_width) * Len(cards) + _title_text_h + 3 * _spacing_width
    IN  [size |-> <<width + _spacing_width * 2, _height>>,
         title |-> [xy |-> <<_spacing_width * 2, _spacing_width>>, height |-> _title_text_h],
         pastes |-> [i \in 1..Len(cards) |->
                       [im |-> cards[i],
                        box |-> <<_spacing_width,
                                  _spacing_width * 2 + _title_text_h
                                      + (_card_height + _spacing_width) * (i - 1)>>]]]

\* (variant: a card that raised kept in the list, as a blank card)
generate_user_searching_result_image_substituting(users, results, width, ratio, _title_text_h) ==
    LET cards == [i \in 1..Len(results) |->
                    IF IsException(results[i]) THEN [user_id |-> 0, size |-> <<width, 0>>,
                                                     tiles |-> <<>>]
                    ELSE results[i].value]
    IN  _handle_generate_image(users, cards, width, ratio, _title_text_h)

\* generate_user_searching_result_image after the gather of the cards: the cards
\* that were produced (filter_exception=True, line 333) composed into the image
generate_user_searching_result_image(users, results, width, ratio, _title_text_h) ==
    LET gathered == semaphore_gather(results, TRUE)
        cards == [i \in 1..Len(gathered) |-> gathered[i].value]
    IN  _handle_generate_image(users, cards, width, ratio, _title_text_h)

SCards == 1..Len(sUsers)

SThumbs(c) == 1..Len(sUsers[c].illusts_thumb_urls)

SearchIdle ==
    /\ sPhase = "idle"
    /\ sUsers = <<>>
    /\ sWidth = 0
    /\ sRatio = <<1, 1>>
    /\ sCard = <<>>
    /\ sCardSlot = <<>>
    /\ sCardPermits = 0
    /\ sHead = <<>>
    /\ sThumb = <<>>
    /\ sThumbSlot = <<>>
    /\ sThumbPermits = <<>>
    /\ sImage = NoResult

\* lines 331-333: the users cut to user_searching_card_num (configuration, an
\* input here), one card coroutine per user, the gather of the cards started
SCall ==
    /\ sPhase = "idle"
    /\ \E searching_users \in Searchings, user_searching_card_num \in 1..MaxUsers,
          width \in Widths, ratio \in Ratios :
        LET users == Take(searching_users, user_searching_card_num)
        IN  /\ sUsers' = users
            /\ sWidth' = width
            /\ sRatio' = ratio
            /\ sCard' = [c \in 1..Len(users) |-> "pending"]
            /\ sCardSlot' = [c \in 1..Len(users) |-> NoResult]
            /\ sHead' = [c \in 1..Len(users) |-> NoResult]
            /\ sThumb' = [c \in 1..Len(users) |->
                            [i \in 1..Len(users[c].illusts_thumb_urls) |-> "pending"]]
            /\ sThumbSlot' = [c \in 1..Len(users) |->
                                [i \in 1..Len(users[c].illusts_thumb_urls) |-> NoResult]]
            /\ sThumbPermits' = [c \in 1..Len(users) |-> 0]
    /\ sCardPermits' = CardSemaphoreNum
    /\ sPhase' = "gathering"
    /\ UNCHANGED <<sImage, previewVars, poolVars, searchPoolVars, cardVars, extractVars,
                   resourceVars, fileVars>>

\* a card coroutine obtains a permit of the cards' pool and awaits its avatar: line 215
SStartCard(c) ==
    /\ sPhase = "gathering"
    /\ sCard[c] = "pending"
    /\ CanAcquire(sCardPermits)
    /\ sCardPermits' = SemaphoreAcquire(sCardPermits)
    /\ sCard' = [sCard EXCEPT ![c] = "avatar"]
    /\ UNCHANGED <<sPhase, sUsers, sWidth, sRatio, sCardSlot, sHead, sThumb, sThumbSlot,
                   sThumbPermits, sImage, previewVars, poolVars, searchPoolVars,
                      cardVars, extractVars, resourceVars, fileVars>>

\* the avatar fetch resolves: the card coroutine raises, or keeps the bytes and
\* starts the gather of its thumbnails (lines 215-219)
SAvatarDone(c) ==
    /\ sPhase = "gathering"
    /\ sCard[c] = "avatar"
    /\ \E _content \in FetcherOutcomes(sUsers[c].user_head_url) :
        LET user_head == _get_pixiv_resource(_content)
        IN  IF user_head.raised
            THEN /\ sCard' = [sCard EXCEPT ![c] = "done"]
                 /\ sCardSlot' = [sCardSlot EXCEPT ![c] = user_head]
                 /\ sCardPermits' = PermitsAfterExit(sCardPermits, TRUE)
                 /\ UNCHANGED <<sHead, sThumbPermits>>
            ELSE /\ sCard' = [sCard EXCEPT ![c] = "thumbs"]
                 /\ sHead' = [sHead EXCEPT ![c] = user_head]
                 /\ sThumbPermits' = [sThumbPermits EXCEPT ![c] = ThumbSemaphoreNum]
                 /\ UNCHANGED <<sCardSlot, sCardPermits>>
    /\ UNCHANGED <<sPhase, sUsers, sWidth, sRatio, sThumb, sThumbSlot, sImage,
                   previewVars, poolVars, searchPoolVars, cardVars, extractVars,
                   resourceVars, fileVars>>

\* (variant: the thumbnail fetches issued while the avatar is still awaited)
SStartThumbWithAvatar(c, i) ==
    /\ sPhase = "gathering"
    /\ sCard[c] \in {"avatar", "thumbs"}
    /\ sThumb[c][i] = "pending"
    /\ sCard[c] = "thumbs" => CanAcquire(sThumbPermits[c])
    /\ sThumbPermits' = [sThumbPermits EXCEPT
                           ![c] = IF sCard[c] = "thumbs" THEN SemaphoreAcquire(@) ELSE @]
    /\ sThumb' = [sThumb EXCEPT ![c][i] = "fetching"]
    /\ UNCHANGED <<sPhase, sUsers, sWidth, sRatio, sCard, sCardSlot, sCardPermits, sHead,
                   sThumbSlot, sImage, previewVars, poolVars, searchPoolVars,
                   cardVars, extractVars, resourceVars, fileVars>>

\* thumbnail fetch i of card c obtains a permit of the card's pool
SStartThumb(c, i) ==
    /\ sPhase = "gathering"
    /\ sCard[c] = "thumbs"
    /\ sThumb[c][i] = "pending"
    /\ CanAcquire(sThumbPermits[c])
    /\ sThumbPermits' = [sThumbPermits EXCEPT ![c] = SemaphoreAcquire(@)]
    /\ sThumb' = [sThumb EXCEPT ![c][i] = "fetching"]
    /\ UNCHANGED <<sPhase, sUsers, sWidth, sRatio, sCard, sCardSlot, sCardPermits, sHead,
                   sThumbSlot, sImage, previewVars, poolVars, searchPoolVars,
                      cardVars, extractVars, resourceVars, fileVars>>

\* thumbnail fetch i of card c returns its bytes or raises
SThumbDone(c, i) ==
    /\ sPhase = "gathering"
    /\ sCard[c] = "thumbs"
    /\ sThumb[c][i] = "fetching"
    /\ \E _content \in FetcherOutcomes(sUsers[c].illusts_thumb_urls[i]) :
        LET result == _get_pixiv_resource(_content)
        IN  /\ sThumbSlot' = [sThumbSlot EXCEPT ![c][i] = result]
            /\ sThumbPermits' = [sThumbPermits EXCEPT ![c] = PermitsAfterExit(@, result.raised)]
    /\ sThumb' = [sThumb EXCEPT ![c][i] = "done"]
    /\ UNCHANGED <<sPhase, sUsers, sWidth, sRatio, sCard, sCardSlot, sCardPermits, sHead,
                   sImage, previewVars, poolVars, searchPoolVars, cardVars, extractVars,
                   resourceVars, fileVars>>

\* the gather of the thumbnails returns; the card goes on to run_sync: line 325
SThumbsGathered(c) ==
    /\ sPhase = "gathering"
    /\ sCard[c] = "thumbs"
    /\ \A i \in SThumbs(c) : sThumb[c][i] = "done"
    /\ sCard' = [sCard EXCEPT ![c] = "compose"]
    /\ UNCHANGED <<sPhase, sUsers, sWidth, sRatio, sCardSlot, sCardPermits, sHead, sThumb,
                   sThumbSlot, sThumbPermits, sImage, previewVars, poolVars, searchPoolVars,
                      cardVars, extractVars, resourceVars, fileVars>>

\* _handle_generate_card returns the card or raises; the card coroutine exits
SComposeCard(c) ==
    /\ sPhase = "gathering"
    /\ sCard[c] = "compose"
    /\ LET user_illusts_thumb == semaphore_gather(sThumbSlot[c], FALSE)
       IN  \E undecodable \in SUBSET Opened(user_illusts_thumb), measured \in GridMeasures :
             LET result == _handle_generate_card(sUsers[c], sWidth, sRatio, sHead[c].value,
                                                 user_illusts_thumb, undecodable, measured)
             IN  /\ sCardSlot' = [sCardSlot EXCEPT ![c] = result]
                 /\ sCardPermits' = PermitsAfterExit(sCardPermits, result.raised)
    /\ sCard' = [sCard EXCEPT ![c] = "done"]
    /\ UNCHANGED <<sPhase, sUsers, sWidth, sRatio, sHead, sThumb, sThumbSlot, sThumbPermits,
                   sImage, previewVars, poolVars, searchPoolVars, cardVars, extractVars,
                   resourceVars, fileVars>>

\* every card coroutine has exited: the image is composed and written (lines 333-374)
SGenerateImage ==
    /\ sPhase = "gathering"
    /\ \A c \in SCards : sCard[c] = "done"
    /\ \E _title_text_h \in TitleHeights :
        sImage' = Return(generate_user_searching_result_image(
                             sUsers, sCardSlot, sWidth, sRatio, _title_text_h))
    /\ sPhase' = "written"
    /\ UNCHANGED <<sUsers, sWidth, sRatio, sCard, sCardSlot, sCardPermits, sHead, sThumb,
                   sThumbSlot, sThumbPermits, previewVars, poolVars, searchPoolVars,
                      cardVars, extractVars, resourceVars, fileVars>>

-----------------------------------------------------------------------------
(* _generate_user_searching_result_card on one user: the gathered thumbnails
   and the card composed from them *)

\* the user whose card is composed, with n thumbnail urls
CardUser(n) == PixivUserSearchingBody(1, n)

\* what the gather of lines 216-219 can hand back for the first n thumbnail urls: per
\* url, in the order of the urls, the bytes fetched or the exception raised
RECURSIVE GatheredThumbs(_, _)
GatheredThumbs(user, n) ==
    IF n = 0 THEN {<<>>}
    ELSE {Append(t, _get_pixiv_resource(_content)) :
            t \in GatheredThumbs(user, n - 1),
            _content \in FetcherOutcomes(user.illusts_thumb_urls[n])}

\* user_head: the avatar bytes of line 215
CardHead == <<"bytes", CardUser(0).user_head_url>>

CardIdle ==
    /\ cPhase = "idle"
    /\ cWidth = 0
    /\ cRatio = <<1, 1>>
    /\ cThumb = <<>>
    /\ cUndecodable = {}
    /\ cCard = NoResult

\* lines 215-219: the avatar was fetched and the gather of the thumbnails
\* returned, exceptions kept in their places
CardGathered ==
    /\ cPhase = "idle"
    /\ \E n \in 0..MaxCardThumbs, width \in CardWidths, ratio \in Ratios :
        \E user_illusts_thumb \in GatheredThumbs(CardUser(n), n) :
            /\ cWidth' = width
            /\ cRatio' = ratio
            /\ cThumb' = semaphore_gather(user_illusts_thumb, FALSE)
    /\ cPhase' = "gathered"
    /\ UNCHANGED <<cUndecodable, cCard, previewVars, poolVars, searchPoolVars, searchVars,
                   extractVars, resourceVars, fileVars>>

\* line 325: _handle_generate_card runs and returns the card or raises
CardCompose ==
    /\ cPhase = "gathered"
    /\ \E undecodable \in SUBSET Opened(cThumb), measured \in Measures :
        /\ cUndecodable' = undecodable
        /\ cCard' = _handle_generate_card(CardUser(Len(cThumb)), cWidth, cRatio, CardHead,
                                          cThumb, undecodable, measured)
    /\ cPhase' = "composed"
    /\ UNCHANGED <<cWidth, cRatio, cThumb, previewVars, poolVars, searchPoolVars, searchVars,
                   extractVars, resourceVars, fileVars>>

-----------------------------------------------------------------------------
(* The regular expressions of parse_pid_from_url (lines 48-56), matched the way
   re.search matches them: the leftmost start, and from it the first match in
   the order in which a backtracking matcher tries the alternatives.  A list
   of match states, most preferred first, is carried through the pattern. *)

None == [is_none |-> TRUE]

\* int | None: an integer result
Some(v) == [is_none |-> FALSE, value |-> v]

CharAt(text, i) == SubSeq(text, i, i)

CharsOf(text) == {CharAt(text, i) : i \in 1..Len(text)}

\* \d and \w on the characters of the inputs drawn here (ASCII)
DigitChars == CharsOf("0123456789")

WordChars == DigitChars \cup CharsOf("abcdefghijklmnopqrstuvwxyz")
                        \cup CharsOf("ABCDEFGHIJKLMNOPQRSTUVWXYZ") \cup {"_"}

RECURSIVE int(_)
int(digits) ==
    IF digits = "" THEN 0
    ELSE LET last == CharAt(digits, Len(digits))
         IN  10 * int(SubSeq(digits, 1, Len(digits) - 1))
             + (CHOOSE d \in 0..9 : CharAt("0123456789", d + 1) = last)

RECURSIVE Flatten(_)
Flatten(lists) == IF lists = <<>> THEN <<>> ELSE Head(lists) \o Flatten(Tail(lists))

\* the match state before anything is consumed, at position start
MatchFrom(start) == <<[pos |-> start, digits |-> ""]>>

\* a literal
Literal(text, lit, S) ==
    Flatten([k \in 1..Len(S) |->
        IF /\ S[k].pos + Len(lit) - 1 <= Len(text)
           /\ SubSeq(text, S[k].pos, S[k].pos + Len(lit) - 1) = lit
        THEN <<[S[k] EXCEPT !.pos = @ + Len(lit)]>>
        ELSE <<>>])

\* lit? : with the literal first, without it second
Optional(text, lit, S) ==
    Flatten([k \in 1..Len(S) |-> Literal(text, lit, <<S[k]>>) \o <<S[k]>>])

\* the number of characters of the set chars that follow position pos
RECURSIVE Run(_, _, _)
Run(text, chars, pos) ==
    IF pos <= Len(text) /\ CharAt(text, pos) \in chars THEN 1 + Run(text, chars, pos + 1) ELSE 0

\* .*? : any characters but a newline, as few as possible first
DotStarLazy(text, S) ==
    Flatten([k \in 1..Len(S) |->
        [n \in 1..(Run(text, CharsOf(text) \ {"\n"}, S[k].pos) + 1) |->
            [S[k] EXCEPT !.pos = @ + n - 1]]])

\* (artworks|i)
ArtworksOrI(text, S) ==
    Flatten([k \in 1..Len(S) |->
        Literal(text, "artworks", <<S[k]>>) \o Literal(text, "i", <<S[k]>>)])

\* (\d+?) : the captured digits, as few as possible first
DigitsLazy(text, S) ==
    Flatten([k \in 1..Len(S) |->
        [n \in 1..Run(text, DigitChars, S[k].pos) |->
            [pos |-> S[k].pos + n, digits |-> SubSeq(text, S[k].pos, S[k].pos + n - 1)]]])

\* (\d+) : the captured digits, as many as possible first
DigitsGreedy(text, S) ==
    Flatten([k \in 1..Len(S) |->
        LET run == Run(text, DigitChars, S[k].pos)
        IN  [n \in 1..run |->
                [pos |-> S[k].pos + (run - n + 1),
                 digits |-> SubSeq(text, S[k].pos, S[k].pos + (run - n))]]])

\* (&mode=\w+?)? : with the group first, without it second
OptionalMode(text, S) ==
    Flatten([k \in 1..Len(S) |->
        LET after == Literal(text, "&mode=", <<S[k]>>)
        IN  Flatten([j \in 1..Len(after) |->
                [n \in 1..Run(text, WordChars, after[j].pos) |->
                    [after[j] EXCEPT !.pos = @ + n]]])
            \o <<S[k]>>])

\* $ : the end of the text, or just before a newline that ends it
EndOfText(text, S) ==
    SelectSeq(S, LAMBDA m : \/ m.pos = Len(text) + 1
                            \/ m.pos = Len(text) /\ CharAt(text, Len(text)) = "\n")

\* re.search: the most preferred match of the earliest start that has one
Search(matches) ==
    IF matches = <<>> THEN [matched |-> FALSE]
    ELSE [matched |-> TRUE, digits |-> Head(matches).digits]

\* https?://.*?pixiv\.net
UrlPrefix(text, S) ==
    Literal(text, "pixiv.net", DotStarLazy(text, Literal(text, "://",
        Optional(text, "s", Literal(text, "http", S)))))

\* line 48: ^https?://.*?pixiv\.net/(artworks|i)/(\d+?)$
url_new_strict(text) ==
    Search(EndOfText(text, DigitsLazy(text, Literal(text, "/",
        ArtworksOrI(text, Literal(text, "/", UrlPrefix(text, MatchFrom(1))))))))

\* line 50: ^https?://.*?pixiv\.net.*?illust_id=(\d+?)(&mode=\w+?)?$
url_old_strict(text) ==
    Search(EndOfText(text, OptionalMode(text, DigitsLazy(text,
        Literal(text, "illust_id=", DotStarLazy(text, UrlPrefix(text, MatchFrom(1))))))))

\* line 54: https?://.*?pixiv\.net/(artworks|i)/(\d+)
url_new_loose(text) ==
    Search(Flatten([start \in 1..(Len(text) + 1) |->
        DigitsGreedy(text, Literal(text, "/",
            ArtworksOrI(text, Literal(text, "/", UrlPrefix(text, MatchFrom(start))))))]))

\* line 56: https?://.*?pixiv\.net.*?illust_id=(\d+)
url_old_loose(text) ==
    Search(Flatten([start \in 1..(Len(text) + 1) |->
        DigitsGreedy(text, Literal(text, "illust_id=",
            DotStarLazy(text, UrlPrefix(text, MatchFrom(start)))))]))

\* (variant: the legacy form tried before the path form)
parse_pid_from_url_legacy_first(text, url_mode) ==
    LET url_new == IF url_mode THEN url_new_strict(text) ELSE url_new_loose(text)
        url_old == IF url_mode THEN url_old_strict(text) ELSE url_old_loose(text)
    IN  IF url_old.matched THEN Return(Some(int(url_old.digits)))
        ELSE IF url_new.matched THEN Return(Some(int(url_new.digits)))
        ELSE Return(None)

\* parse_pid_from_url (lines 44-58)
parse_pid_from_url(text, url_mode) ==
    IF url_mode
    THEN LET url_new == url_new_strict(text)
             url_old == url_old_strict(text)
         IN  IF url_new.matched THEN Return(Some(int(url_new.digits)))
             ELSE IF url_old.matched THEN Return(Some(int(url_old.digits)))
             ELSE Return(None)
    ELSE LET url_new == url_new_loose(text)
             url_old == url_old_loose(text)
         IN  IF url_new.matched THEN Return(Some(int(url_new.digits)))
             ELSE IF url_old.matched THEN Return(Some(int(url_old.digits)))
             ELSE Return(None)

-----------------------------------------------------------------------------
(* The documents handed to the page parsers (lines 61-209).  A document is the
   tree the selectors of its parser walk: items (user items, article cards,
   works), nested items (thumbnails, tags), and the set of the anchors and
   attributes of that tree that the document lacks. *)

\* an element or attribute of the document: of the page (item = 0), of item
\* number item (sub = 0), or of nested item number sub of that item
Anchor(name, item, sub) == [anchor |-> name, item |-> item, sub |-> sub]

Has(doc, name, item, sub) == Anchor(name, item, sub) \notin doc.missing

\* the text of an element, as get_text() returns it
TextAt(name, item, sub) == Some([text |-> name, item |-> item, sub |-> sub])

\* the decimal numeral of k (1..9)
Numeral(k) == CharAt("123456789", k)

\* a failure of the parse call
AttributeError == Raise(<<"AttributeError">>)

KeyError == Raise(<<"KeyError">>)

TypeError == Raise(<<"TypeError">>)

ValidationError == Raise(<<"ValidationError">>)

\* the first exception of a list of results, or NoResult when none raised
FirstRaised(results) ==
    IF \E k \in 1..Len(results) : results[k].raised
    THEN results[CHOOSE k \in 1..Len(results) :
                    results[k].raised /\ \A h \in 1..(k - 1) : ~results[h].raised]
    ELSE NoResult

\* the values of a list of results none of which raised
ValuesOf(results) == [k \in 1..Len(results) |-> results[k].value]

\* a loop that appends one value per item and stops at the first exception
FirstRaisedOrValues(results) ==
    IF FirstRaised(results) # NoResult THEN FirstRaised(results)
    ELSE Return(ValuesOf(results))

\* str.replace(old, new)
RECURSIVE Replace(_, _, _)
Replace(str, old, new) ==
    IF Len(str) < Len(old) \/ old = "" THEN str
    ELSE IF SubSeq(str, 1, Len(old)) = old
         THEN new \o Replace(SubSeq(str, Len(old) + 1, Len(str)), old, new)
         ELSE SubSeq(str, 1, 1) \o Replace(SubSeq(str, 2, Len(str)), old, new)

\* re.sub(r'^/zh/t/(?=\d+)', '', tag_rela_url): lines 136 and 166
StripTagPrefix(tag_rela_url) ==
    IF /\ Len(tag_rela_url) > 6
       /\ SubSeq(tag_rela_url, 1, 6) = "/zh/t/"
       /\ CharAt(tag_rela_url, 7) \in DigitChars
    THEN SubSeq(tag_rela_url, 7, Len(tag_rela_url))
    ELSE tag_rela_url

\* parse_obj of the models of the parsed pages: validation fails when a field
\* that the model requires is None
parse_obj(result, required_missing) ==
    IF required_missing THEN ValidationError ELSE Return(result)

\* lines 93-97: the data-src of the thumbnails of user item k that have one;
\* raises on a thumbnail item without a link (user_illust_elm.a is None)
ThumbUrlsOfUser(doc, k) ==
    IF \E j \in 1..doc.subs : ~Has(doc, "thumb.a", k, j) THEN AttributeError
    ELSE Return(ValuesOf(SelectSeq(
             [j \in 1..doc.subs |->
                 IF Has(doc, "thumb.a@data-src", k, j)
                 THEN Return(Some("https://i.pximg.net/thumb/" \o Numeral(k) \o "/" \o Numeral(j)))
                 ELSE Return(None)],
             LAMBDA r : r.value # None)))

\* (variant: a user item without its avatar link left out of the list)
ParseUserItemSkipping(doc, k) ==
    IF ~Has(doc, "_user-icon", k, 0) THEN Return(None)
    ELSE IF ~Has(doc, "_user-icon@data-src", k, 0) THEN KeyError
    ELSE IF ~Has(doc, "h1", k, 0) \/ ~Has(doc, "h1.a", k, 0) THEN AttributeError
    ELSE IF ~Has(doc, "h1.a@href", k, 0) THEN KeyError
    ELSE IF ~Has(doc, "meta", k, 0) \/ ~Has(doc, "meta.dd.a", k, 0) THEN AttributeError
    ELSE IF ~Has(doc, "caption", k, 0) THEN AttributeError
    ELSE LET thumbs == ThumbUrlsOfUser(doc, k)
         IN  IF thumbs.raised THEN thumbs
             ELSE Return([user_id |-> Some(Replace("/users/" \o Numeral(k), "/users/", "")),
                          user_name |-> TextAt("h1.a", k, 0),
                          user_head_url |-> Some("https://i.pximg.net/head/" \o Numeral(k)),
                          user_illust_count |-> TextAt("meta.dd.a", k, 0),
                          user_desc |-> TextAt("caption", k, 0),
                          illusts_thumb_urls |-> thumbs.value])

\* lines 76-105: one user item of the search result
ParseUserItem(doc, k) ==
    IF ~Has(doc, "_user-icon", k, 0) THEN AttributeError
    ELSE IF ~Has(doc, "_user-icon@data-src", k, 0) THEN KeyError
    ELSE IF ~Has(doc, "h1", k, 0) \/ ~Has(doc, "h1.a", k, 0) THEN AttributeError
    ELSE IF ~Has(doc, "h1.a@href", k, 0) THEN KeyError
    ELSE IF ~Has(doc, "meta", k, 0) \/ ~Has(doc, "meta.dd.a", k, 0) THEN AttributeError
    ELSE IF ~Has(doc, "caption", k, 0) THEN AttributeError
    ELSE LET thumbs == ThumbUrlsOfUser(doc, k)
         IN  IF thumbs.raised THEN thumbs
             ELSE Return([user_id |-> Some(Replace("/users/" \o Numeral(k), "/users/", "")),
                          user_name |-> TextAt("h1.a", k, 0),
                          user_head_url |-> Some("https://i.pximg.net/head/" \o Numeral(k)),
                          user_illust_count |-> TextAt("meta.dd.a", k, 0),
                          user_desc |-> TextAt("caption", k, 0),
                          illusts_thumb_urls |-> thumbs.value])

\* (variant of parse_user_searching_result_page over ParseUserItemSkipping)
parse_user_searching_result_page_skipping(doc) ==
    IF ~Has(doc, "column-header", 0, 0) THEN AttributeError
    ELSE IF ~Has(doc, "column-title", 0, 0) THEN AttributeError
    ELSE IF ~Has(doc, "count-badge", 0, 0) THEN AttributeError
    ELSE LET user_list == [k \in 1..doc.items |-> ParseUserItemSkipping(doc, k)]
         IN  IF FirstRaised(user_list) # NoResult THEN FirstRaised(user_list)
             ELSE Return([search_name |-> TextAt("column-title", 0, 0),
                          count |-> TextAt("count-badge", 0, 0),
                          users |-> SelectSeq(ValuesOf(user_list), LAMBDA u : u # None)])

\* parse_user_searching_result_page (lines 61-111)
parse_user_searching_result_page(doc) ==
    IF ~Has(doc, "column-header", 0, 0) THEN AttributeError
    ELSE IF ~Has(doc, "column-title", 0, 0) THEN AttributeError
    ELSE IF ~Has(doc, "count-badge", 0, 0) THEN AttributeError
    ELSE LET user_list == [k \in 1..doc.items |-> ParseUserItem(doc, k)]
         IN  IF FirstRaised(user_list) # NoResult THEN FirstRaised(user_list)
             ELSE parse_obj([search_name |-> TextAt("column-title", 0, 0),
                             count |-> TextAt("count-badge", 0, 0),
                             users |-> ValuesOf(user_list)], FALSE)

\* the root_url handed to the pixivision parsers
RootUrl == "https://www.pixivision.net"

\* the style attribute of the _thumbnail of card k: the site's form, with two
\* blanks after the colon, or a form with one
StyleOf(doc, k) ==
    IF Has(doc, "_thumbnail@style:two-blanks", k, 0)
    THEN "background-image:  url(https://i.pximg.net/c/" \o Numeral(k) \o ".jpg)"
    ELSE "background-image: url(https://i.pximg.net/c/" \o Numeral(k) \o ".jpg)"

\* line 128: re.search(r'^background-image:\s\surl\((.+)\)$', thumbnail), for a
\* style without a newline: the match's group 1, or None when nothing matches
SearchStyle(thumbnail) ==
    LET n == Len(thumbnail)
    IN  IF /\ n >= 25
           /\ SubSeq(thumbnail, 1, 17) = "background-image:"
           /\ CharAt(thumbnail, 18) \in {" ", "\t"}
           /\ CharAt(thumbnail, 19) \in {" ", "\t"}
           /\ SubSeq(thumbnail, 20, 23) = "url("
           /\ CharAt(thumbnail, n) = ")"
        THEN Some(SubSeq(thumbnail, 24, n - 1))
        ELSE None

\* lines 133-138: the tags of card k; raises on a tag without a link
\* (tag.find('a') is None) and on a link without href (re.sub on None)
TagsOfCard(doc, k) ==
    FirstRaisedOrValues(
        [j \in 1..doc.subs |->
            IF ~Has(doc, "tag.a", k, j) THEN AttributeError
            ELSE IF ~Has(doc, "tag.a@href", k, j) THEN TypeError
            ELSE LET tag_rela_url == "/zh/t/" \o Numeral(j)
                 IN  Return([tag_id |-> Some(StripTagPrefix(tag_rela_url)),
                             tag_name |-> TextAt("tag", k, j),
                             tag_url |-> Some(RootUrl \o tag_rela_url)])])

\* lines 124-139: one article card of the show page
ParseCard(doc, k) ==
    IF ~Has(doc, "arc__title", k, 0) \/ ~Has(doc, "arc__title.a", k, 0) THEN AttributeError
    ELSE IF ~Has(doc, "_thumbnail", k, 0) THEN AttributeError
    ELSE IF ~Has(doc, "_thumbnail@style", k, 0) THEN TypeError
    ELSE IF SearchStyle(StyleOf(doc, k)) = None THEN AttributeError
    ELSE IF ~Has(doc, "arc__title.a@href", k, 0) THEN TypeError
    ELSE IF ~Has(doc, "_tag-list", k, 0) THEN AttributeError
    ELSE LET tag_list == TagsOfCard(doc, k)
         IN  IF tag_list.raised THEN tag_list
             ELSE Return([aid |-> IF Has(doc, "arc__title.a@data-gtm-label", k, 0)
                                  THEN Some(Numeral(k)) ELSE None,
                          title |-> TextAt("arc__title", k, 0),
                          thumbnail |-> SearchStyle(StyleOf(doc, k)),
                          url |-> Some(RootUrl \o "/zh/a/" \o Numeral(k)),
                          tags |-> tag_list.value])

\* parse_pixivision_show_page (lines 114-140)
parse_pixivision_show_page(doc) ==
    LET result_list == FirstRaisedOrValues([k \in 1..doc.items |-> ParseCard(doc, k)])
    IN  IF result_list.raised THEN result_list
        ELSE parse_obj([illustrations |-> result_list.value],
                       \E k \in 1..doc.items : result_list.value[k].aid = None)

\* lines 160-168: the tags of the article page; no _tag-list gives no tags;
\* raises on a link without href (re.sub on None)
TagsOfArticle(doc) ==
    IF ~Has(doc, "_tag-list", 0, 0) THEN Return(<<>>)
    ELSE FirstRaisedOrValues(
        [j \in 1..doc.subs |->
            IF ~Has(doc, "tag@href", 0, j) THEN TypeError
            ELSE LET tag_rela_url == "/zh/t/" \o Numeral(j)
                 IN  Return([tag_id |-> Some(StripTagPrefix(tag_rela_url)),
                             tag_name |-> IF Has(doc, "tag@data-gtm-label", 0, j)
                                          THEN TextAt("tag@data-gtm-label", 0, j) ELSE None,
                             tag_url |-> Some(RootUrl \o tag_rela_url)])])

\* lines 187-200: work k of the article
ParseWork(doc, k) ==
    IF ~Has(doc, "work.info", k, 0) THEN AttributeError
    ELSE IF ~Has(doc, "am__work__user-name", k, 0) THEN AttributeError
    ELSE IF ~Has(doc, "am__work__user-name.a", k, 0) THEN AttributeError
    ELSE IF ~Has(doc, "am__work__title", k, 0) THEN AttributeError
    ELSE IF ~Has(doc, "inner-link", k, 0) THEN AttributeError
    ELSE IF ~Has(doc, "inner-link@href", k, 0) THEN TypeError
    ELSE IF ~Has(doc, "am__work__illust", k, 0) THEN AttributeError
    ELSE LET artwork_url == "https://www.pixiv.net/artworks/" \o Numeral(k)
         IN  Return([artwork_id |-> parse_pid_from_url(artwork_url, TRUE).value,
                     artwork_user |-> TextAt("am__work__user-name.a", k, 0),
                     artwork_title |-> TextAt("am__work__title", k, 0),
                     artwork_url |-> Some(artwork_url),
                     image_url |-> IF Has(doc, "am__work__illust@src", k, 0)
                                   THEN Some("https://i.pximg.net/w/" \o Numeral(k) \o ".jpg")
                                   ELSE None])

\* parse_pixivision_article_page (lines 143-209); doc.feature: the am__body
\* holds a _feature-article-body
parse_pixivision_article_page(doc) ==
    IF ~Has(doc, "_article-main", 0, 0) THEN AttributeError
    ELSE IF ~Has(doc, "am__title", 0, 0) THEN AttributeError
    ELSE IF ~Has(doc, "am__description", 0, 0) THEN AttributeError
    ELSE IF Has(doc, "_article-illust-eyecatch", 0, 0)
            /\ ~Has(doc, "_article-illust-eyecatch.img", 0, 0) THEN AttributeError
    ELSE LET tags_list == TagsOfArticle(doc)
             artwork_list == FirstRaisedOrValues([k \in 1..doc.items |-> ParseWork(doc, k)])
         IN  IF tags_list.raised THEN tags_list
             ELSE IF ~Has(doc, "am__body", 0, 0) THEN AttributeError
             ELSE IF doc.feature /\ ~Has(doc, "fab__paragraph", 0, 0) THEN AttributeError
             ELSE IF artwork_list.raised THEN artwork_list
             ELSE parse_obj(
                    [title |-> TextAt("am__title", 0, 0),
                     description |-> IF doc.feature THEN TextAt("fab__paragraph", 0, 0)
                                     ELSE TextAt("am__description", 0, 0),
                     eyecatch_image |->
                        IF /\ Has(doc, "_article-illust-eyecatch", 0, 0)
                           /\ Has(doc, "_article-illust-eyecatch.img@src", 0, 0)
                        THEN Some("https://i.pximg.net/eyecatch.jpg") ELSE None,
                     artwork_list |-> artwork_list.value,
                     tags_list |-> tags_list.value],
                    \/ \E j \in 1..Len(tags_list.value) : tags_list.value[j].tag_name = None
                    \/ \E k \in 1..doc.items :
                          \/ artwork_list.value[k].image_url = None
                          \/ artwork_list.value[k].artwork_id = None)

-----------------------------------------------------------------------------
(* Calls of the extractors: the call is made, then run; a second run of the
   same call follows the first *)

\* the texts handed to parse_pid_from_url, built from their parts:
\* lead, scheme, host, domain, form, id, tail
Leads == {"", "see "}

Schemes == {"https://", "http://", "ftp://", ""}

\* what stands between the scheme and the domain: nothing or a subdomain of the
\* site, or another site's host
SiteHosts == {"", "www."}

ForeignHosts == {"x.example/", "evil"}

Domains == {"pixiv.net", "pixivXnet"}

PathForms == {"/artworks/", "/i/"}

LegacyForms == {"/member_illust.php?illust_id=", "/member_illust.php?mode=medium&illust_id="}

OtherForms == {"/users/"}

Ids == {"", "7", "12345", "007"}

Tails == {"", "&mode=medium", "?illust_id=8", "\n", "/", " x", "a"}

PidParts ==
    [lead : Leads, scheme : Schemes, host : SiteHosts \cup ForeignHosts, domain : Domains,
     form : PathForms \cup LegacyForms \cup OtherForms, id : Ids, tail : Tails]

TextOf(parts) ==
    parts.lead \o parts.scheme \o parts.host \o parts.domain \o parts.form \o parts.id
    \o parts.tail

\* no extractor was called
ExtractIdle ==
    /\ xPhase = "idle"
    /\ xCall = NoCall
    /\ xResults = <<>>

\* the sets of at most k elements of A
RECURSIVE SubsetsUpTo(_, _)
SubsetsUpTo(A, k) ==
    IF k = 0 THEN {{}}
    ELSE LET smaller == SubsetsUpTo(A, k - 1)
         IN  smaller \cup {M \cup {a} : M \in smaller, a \in A}

\* the anchors and attributes a parser looks for: of the page, of each item,
\* of each nested item
AnchorsOf(pageNames, itemNames, nestedNames, nestedOfItems, items, subs) ==
    {Anchor(name, 0, 0) : name \in pageNames}
    \cup {Anchor(name, k, 0) : name \in itemNames, k \in 1..items}
    \cup {Anchor(name, k, j) : name \in nestedNames,
                               k \in (IF nestedOfItems THEN 1..items ELSE {0}), j \in 1..subs}

UserSearchingAnchors(items, subs) ==
    AnchorsOf({"column-header", "column-title", "count-badge"},
              {"_user-icon", "_user-icon@data-src", "h1", "h1.a", "h1.a@href", "meta",
               "meta.dd.a", "caption"},
              {"thumb.a", "thumb.a@data-src"}, TRUE, items, subs)

ShowAnchors(items, subs) ==
    AnchorsOf({},
              {"arc__title", "arc__title.a", "arc__title.a@data-gtm-label", "arc__title.a@href",
               "_thumbnail", "_thumbnail@style", "_thumbnail@style:two-blanks", "_tag-list"},
              {"tag.a", "tag.a@href"}, TRUE, items, subs)

ArticleAnchors(items, subs) ==
    AnchorsOf({"_article-main", "am__title", "am__description", "_article-illust-eyecatch",
               "_article-illust-eyecatch.img", "_article-illust-eyecatch.img@src", "_tag-list",
               "am__body", "fab__paragraph"},
              {"work.info", "am__work__user-name", "am__work__user-name.a", "am__work__title",
               "inner-link", "inner-link@href", "am__work__illust", "am__work__illust@src"},
              {"tag@data-gtm-label", "tag@href"}, FALSE, items, subs)

\* the documents of a page type: up to MaxItems items, each list of nested
\* items empty or of NestedItems items, at most MaxMissing anchors lacking
Documents(page) ==
    UNION {
        {[page |-> page, items |-> items, subs |-> subs, feature |-> feature, missing |-> M] :
            M \in SubsetsUpTo(CASE page = "user_searching" -> UserSearchingAnchors(items, subs)
                                [] page = "show" -> ShowAnchors(items, subs)
                                [] page = "article" -> ArticleAnchors(items, subs),
                              MaxMissing),
            feature \in (IF page = "article" THEN BOOLEAN ELSE {FALSE})} :
        items \in 0..MaxItems, subs \in {0, NestedItems}}

\* parse_user_searching_result_page is called with a document
CallParseUserSearching ==
    /\ xPhase = "idle"
    /\ \E content \in Documents("user_searching") :
        xCall' = [fn |-> "parse_user_searching_result_page", content |-> content]
    /\ xPhase' = "called"
    /\ UNCHANGED <<xResults, previewVars, poolVars, searchPoolVars, searchVars, cardVars,
                   resourceVars, fileVars>>

\* parse_pixivision_show_page is called with a document
CallParseShow ==
    /\ xPhase = "idle"
    /\ \E content \in Documents("show") :
        xCall' = [fn |-> "parse_pixivision_show_page", content |-> content]
    /\ xPhase' = "called"
    /\ UNCHANGED <<xResults, previewVars, poolVars, searchPoolVars, searchVars, cardVars,
                   resourceVars, fileVars>>

\* parse_pixivision_article_page is called with a document
CallParseArticle ==
    /\ xPhase = "idle"
    /\ \E content \in Documents("article") :
        xCall' = [fn |-> "parse_pixivision_article_page", content |-> content]
    /\ xPhase' = "called"
    /\ UNCHANGED <<xResults, previewVars, poolVars, searchPoolVars, searchVars, cardVars,
                   resourceVars, fileVars>>

\* parse_pid_from_url is called with a text and a mode
CallParsePid ==
    /\ xPhase = "idle"
    /\ \E parts \in PidParts, url_mode \in BOOLEAN :
        xCall' = [fn |-> "parse_pid_from_url", text |-> TextOf(parts), url_mode |-> url_mode,
                  parts |-> parts]
    /\ xPhase' = "called"
    /\ UNCHANGED <<xResults, previewVars, poolVars, searchPoolVars, searchVars, cardVars,
                   resourceVars, fileVars>>

\* what a run of the call returns or raises: a function of the arguments
ExtractOnce(call) ==
    CASE call.fn = "parse_pid_from_url" -> parse_pid_from_url(call.text, call.url_mode)
      [] call.fn = "parse_user_searching_result_page" ->
            parse_user_searching_result_page(call.content)
      [] call.fn = "parse_pixivision_show_page" -> parse_pixivision_show_page(call.content)
      [] call.fn = "parse_pixivision_article_page" -> parse_pixivision_article_page(call.content)

\* (variant: a run that finds the input consumed by the run before it)
ExtractConsuming(call) ==
    IF xResults # <<>> THEN Raise(<<"StopIteration">>) ELSE ExtractOnce(call)

\* the extractors keep nothing from one run to the next (lines 44-209 assign
\* to local names only)
Extract(call) == ExtractOnce(call)

\* the call runs: the first time, and once again on the same arguments
RunExtractor ==
    /\ xPhase = "called"
    /\ Len(xResults) < MaxRuns
    /\ xResults' = Append(xResults, Extract(xCall))
    /\ UNCHANGED <<xPhase, xCall, previewVars, poolVars, searchPoolVars, searchVars, cardVars,
                   resourceVars, fileVars>>

-----------------------------------------------------------------------------
(* Calls of _get_pixiv_resource, one after the other, against a remote side
   that answers with any status *)

Statuses == {200, 201, 204, 206, 301, 304, 403, 404, 500, 503}

SuccessStatuses == {s \in Statuses : s \div 100 = 2}

ResourceUrls == {"head", "thumb"}

\* what get_bytes can produce for a url: a response with one of the statuses and
\* a body, or an exception when the call cannot complete
ResourceOutcomes(url) ==
    {[kind |-> "response", status |-> s,
      result |-> IF s = 200 THEN <<"bytes", url>> ELSE <<"body", s, url>>] : s \in Statuses}
    \cup {[kind |-> "exception", error |-> e] : e \in {"TimeoutError", "ConnectionResetError"}}

ResourceIdle ==
    /\ rPending = NoCall
    /\ rLog = <<>>

\* lines 32-38: the fetcher is built and get_bytes awaited
CallGetPixivResource ==
    /\ rPending = NoCall
    /\ Len(rLog) < MaxFetches
    /\ \E url \in ResourceUrls : rPending' = [fn |-> "_get_pixiv_resource", url |-> url]
    /\ UNCHANGED <<rLog, previewVars, poolVars, searchPoolVars, searchVars, cardVars, extractVars,
                   fileVars>>

\* lines 38-41: get_bytes answers or raises; the call returns or raises
ReturnGetPixivResource ==
    /\ rPending # NoCall
    /\ \E _content \in ResourceOutcomes(rPending.url) :
        rLog' = Append(rLog, [url |-> rPending.url, content |-> _content,
                              result |-> _get_pixiv_resource(_content)])
    /\ rPending' = NoCall
    /\ UNCHANGED <<previewVars, poolVars, searchPoolVars, searchVars, cardVars, extractVars,
                   fileVars>>

-----------------------------------------------------------------------------
(* Invocations of generate_user_searching_result_image naming and writing
   their image (lines 369-374), against a clock *)

SearchNames == {"miku", "rin"}

\* the clock is finer than the file name: ticks per second
TicksPerSecond == 2

\* datetime.now().strftime('%Y-%m-%d-%H-%M-%S'): the time cut to the second
strftime(now) == now \div TicksPerSecond

\* line 370
ImageFileName(search_name, now) ==
    <<"preview_search_user_", search_name, "_", strftime(now), ".jpg">>

FileIdle ==
    /\ fNow = 0
    /\ fCalls = <<>>
    /\ fFolder = {}

FileCalls == 1..Len(fCalls)

\* lines 329-369: an invocation starts, gathers its cards and composes its image
FileCall ==
    /\ Len(fCalls) < MaxInvocations
    /\ \E search_name \in SearchNames :
        fCalls' = Append(fCalls, [search_name |-> search_name, pc |-> "composing",
                                  named_at |-> 0, image_file_name |-> <<>>])
    /\ UNCHANGED <<fNow, fFolder, previewVars, poolVars, searchPoolVars, searchVars, cardVars,
                   extractVars, resourceVars>>

\* lines 369-371: run_sync returned; the file name is built from the clock
FileName(i) ==
    /\ fCalls[i].pc = "composing"
    /\ fCalls' = [fCalls EXCEPT ![i] =
                    [@ EXCEPT !.pc = "named", !.named_at = fNow,
                              !.image_file_name = ImageFileName(fCalls[i].search_name, fNow)]]
    /\ UNCHANGED <<fNow, fFolder, previewVars, poolVars, searchPoolVars, searchVars, cardVars,
                   extractVars, resourceVars>>

\* lines 372-374: the file is opened with 'wb' (created, or emptied if it
\* exists) and the image of this invocation written to it
FileWrite(i) ==
    /\ fCalls[i].pc = "named"
    /\ fFolder' = {f \in fFolder : f.name # fCalls[i].image_file_name}
                    \cup {[name |-> fCalls[i].image_file_name, content |-> i]}
    /\ fCalls' = [fCalls EXCEPT ![i].pc = "written"]
    /\ UNCHANGED <<fNow, previewVars, poolVars, searchPoolVars, searchVars, cardVars,
                   extractVars, resourceVars>>

\* time passes
FileTick ==
    /\ fNow < MaxTicks
    /\ fNow' = fNow + 1
    /\ UNCHANGED <<fCalls, fFolder, previewVars, poolVars, searchPoolVars, searchVars, cardVars,
                   extractVars, resourceVars>>

-----------------------------------------------------------------------------
(* Specifications *)

Init ==
    /\ PreviewIdle /\ PoolIdle /\ SearchPoolIdle /\ SearchIdle /\ CardIdle /\ ExtractIdle
    /\ ResourceIdle /\ FileIdle

Next ==
    \/ CallRequestPreviewModel
    \/ \E i \in Tasks : StartFetch(i)
    \/ \E i \in Tasks : FinishFetch(i)
    \/ ReturnRequestPreviewModel

Spec == Init /\ [][Next]_vars

NextPool ==
    \/ PoolCall
    \/ PoolStartFetch
    \/ PoolFetchReturns
    \/ PoolFetchRaises
    \/ PoolReturn

SpecPool == Init /\ [][NextPool]_vars

NextSearchPool ==
    \/ SpCall
    \/ \E c \in SpCards : SpStartCard(c)
    \/ \E c \in SpCards : SpAvatarDone(c)
    \/ \E c \in SpCards : SpStartThumb(c)
    \/ \E c \in SpCards : SpThumbDone(c)
    \/ \E c \in SpCards : SpThumbsGathered(c)
    \/ \E c \in SpCards : SpComposeCard(c)
    \/ SpReturn

SpecSearchPool == Init /\ [][NextSearchPool]_vars

NextSearch ==
    \/ SCall
    \/ \E c \in SCards : SStartCard(c)
    \/ \E c \in SCards : SAvatarDone(c)
    \/ \E c \in SCards : \E i \in SThumbs(c) : SStartThumb(c, i)
    \/ \E c \in SCards : \E i \in SThumbs(c) : SThumbDone(c, i)
    \/ \E c \in SCards : SThumbsGathered(c)
    \/ \E c \in SCards : SComposeCard(c)
    \/ SGenerateImage

SpecSearch == Init /\ [][NextSearch]_vars

NextCard ==
    \/ CardGathered
    \/ CardCompose

SpecCard == Init /\ [][NextCard]_vars

NextPid ==
    \/ CallParsePid
    \/ RunExtractor

SpecPid == Init /\ [][NextPid]_vars

NextPage ==
    \/ CallParseUserSearching
    \/ CallParseShow
    \/ CallParseArticle
    \/ RunExtractor

SpecPage == Init /\ [][NextPage]_vars

NextExtract ==
    \/ CallParsePid
    \/ CallParseUserSearching
    \/ CallParseShow
    \/ CallParseArticle
    \/ RunExtractor

SpecExtract == Init /\ [][NextExtract]_vars

NextResource ==
    \/ CallGetPixivResource
    \/ ReturnGetPixivResource

SpecResource == Init /\ [][NextResource]_vars

NextFile ==
    \/ FileCall
    \/ \E i \in FileCalls : FileName(i)
    \/ \E i \in FileCalls : FileWrite(i)
    \/ FileTick

SpecFile == Init /\ [][NextFile]_vars

\* the event loop runs every coroutine that can run, and every fetch that was
\* issued eventually answers or fails
SpecPoolFair ==
    /\ Init
    /\ [][NextPool]_vars
    /\ WF_vars(PoolStartFetch)
    /\ WF_vars(PoolFetchReturns \/ PoolFetchRaises)
    /\ WF_vars(PoolReturn)

-----------------------------------------------------------------------------
(* Properties of _request_preview_model *)

\* the fetch of request i succeeded: the remote answered it with status 200
Succeeded(i) == answer[i].kind = "response" /\ answer[i].status = 200

Failed(i) == task[i] = "done" /\ ~Succeeded(i)

\* the preview item a successful fetch of request i yields
ExpectedBody(i) ==
    [desc_text |-> requests[i].desc_text, preview_thumb |-> answer[i].result]

RECURSIVE ExpectedFrom(_)
ExpectedFrom(i) ==
    IF i > Len(requests) THEN <<>>
    ELSE (IF Succeeded(i) THEN <<ExpectedBody(i)>> ELSE <<>>) \o ExpectedFrom(i + 1)

NumSucceeded == Cardinality({i \in Tasks : Succeeded(i)})

RECURSIVE SumCalls(_)
SumCalls(i) == IF i > Len(calls) THEN 0 ELSE calls[i] + SumCalls(i + 1)

\* C1: the items of the returned batch are exactly the requests whose fetch
\* succeeded, in input order, whatever the order in which the fetches completed.
C1_OrderPreserved ==
    phase = "returned" =>
        /\ ~outcome.raised
        /\ outcome.value.previews = ExpectedFrom(1)

\* a batch of three whose fetches completed out of input order, one of them
\* failing, returned with its two survivors
C1_Witness ==
    /\ phase = "returned"
    /\ Len(requests) = 3
    /\ completed = <<3, 2, 1>>
    /\ Failed(2) /\ Succeeded(1) /\ Succeeded(3)
    /\ requests[1] # requests[3]
    /\ ~outcome.raised
    /\ outcome.value.previews = <<ExpectedBody(1), ExpectedBody(3)>>

\* C2: every returned batch has count = length(previews) = number of requests
\* whose fetch succeeded.
C2_CountIsLength ==
    phase = "returned" =>
        /\ ~outcome.raised
        /\ outcome.value.count = Len(outcome.value.previews)
        /\ outcome.value.count = NumSucceeded

C2_Witness ==
    /\ phase = "returned"
    /\ Len(requests) = 3
    /\ NumSucceeded = 2
    /\ ~outcome.raised
    /\ outcome.value.count = 2

\* C3: a failed fetch (error status or transport error) removes only its own
\* item: the call still returns a batch, never raises, and every request whose
\* fetch succeeded is in the batch.
C3_PartialFailure ==
    (phase = "returned" /\ \E i \in Tasks : Failed(i)) =>
        /\ ~outcome.raised
        /\ Len(outcome.value.previews) = Len(requests) - Cardinality({i \in Tasks : Failed(i)})
        /\ \A i \in Tasks : Succeeded(i) =>
              \E k \in 1..Len(outcome.value.previews) : outcome.value.previews[k] = ExpectedBody(i)

C3_Witness ==
    /\ phase = "returned"
    /\ Len(requests) = 3
    /\ slot[1] = Raise(<<"PixivNetworkError", 404>>)
    /\ slot[2] = Raise(<<"TransportError">>)
    /\ Succeeded(3)
    /\ ~outcome.raised
    /\ outcome.value.previews = <<ExpectedBody(3)>>

\* C4: a batch of n >= 1 requests whose fetches all fail returns count = 0 and
\* no items, and does not raise.
C4_AllFail ==
    (phase = "returned" /\ Len(requests) >= 1 /\ \A i \in Tasks : Failed(i)) =>
        /\ ~outcome.raised
        /\ outcome.value.count = 0
        /\ outcome.value.previews = <<>>

C4_Witness ==
    /\ phase = "returned"
    /\ Len(requests) = MaxRequests
    /\ \A i \in Tasks : Failed(i)
    /\ \E i \in Tasks : answer[i].kind = "exception"
    /\ \E i \in Tasks : answer[i].kind = "response"
    /\ outcome = Return([preview_name |-> preview_name, count |-> 0, previews |-> <<>>])

\* C5: with an empty request list the call issues no fetch and returns a batch
\* with count = 0 and no items, without raising.
C5_EmptyInput ==
    (phase # "idle" /\ requests = <<>>) =>
        /\ SumCalls(1) = 0
        /\ completed = <<>>
        /\ permits = PreviewSemaphoreNum
        /\ ENABLED ReturnRequestPreviewModel \/ phase = "returned"
        /\ phase = "returned" =>
              outcome = Return([preview_name |-> preview_name, count |-> 0, previews |-> <<>>])

C5_Witness ==
    /\ phase = "returned"
    /\ requests = <<>>
    /\ outcome = Return([preview_name |-> preview_name, count |-> 0, previews |-> <<>>])

\* C9: the fetch of each request is issued exactly once, whether it succeeds or
\* fails: never a second time, and once by the time the call returns.
C9_FetchedOnce ==
    \A i \in Tasks :
        /\ calls[i] <= 1
        /\ task[i] # "pending" => calls[i] = 1
        /\ phase = "returned" => calls[i] = 1

C9_Witness ==
    /\ phase = "returned"
    /\ Len(requests) = 2
    /\ Failed(1) /\ Succeeded(2)
    /\ calls = <<1, 1>>

-----------------------------------------------------------------------------
(* Properties of the permit pool of _request_preview_model *)

\* C6: during one call of _request_preview_model at most 30 fetches are in
\* flight at any moment, for any number of requests.
C6_AtMost30InFlight == poolFetching <= 30

\* the cap binds: 30 fetches in flight while further requests wait
C6_Witness ==
    /\ poolPhase = "gathering"
    /\ poolRequests > 30
    /\ poolFetching = 30
    /\ poolPending > 0

\* C8: every fetch task gives its permit back when it exits, by return or by
\* raise; so, every fetch eventually answering or failing, every waiting fetch
\* eventually obtains a permit and the call eventually returns, also when more
\* than 30 items fail.
C8_PermitsReturnedAndCallReturns ==
    /\ [](poolPhase = "gathering" => poolPermits + poolFetching = PreviewSemaphoreNum)
    /\ (poolPending > 0) ~> (poolPending = 0)
    /\ (poolPhase = "gathering") ~> (poolPhase = "returned")

C8_Witness ==
    /\ poolPhase = "returned"
    /\ poolRequests > 30
    /\ poolFailed > 30

-----------------------------------------------------------------------------
(* Properties of the fetches of generate_user_searching_result_image *)

\* fetches of card c in flight: its avatar fetch, or its thumbnail fetches
SpInFlight(c) == (IF spCard[c] = "avatar" THEN 1 ELSE 0) + spThumbFetching[c]

RECURSIVE SpTotalFrom(_)
SpTotalFrom(c) == IF c > Len(spUsers) THEN 0 ELSE SpInFlight(c) + SpTotalFrom(c + 1)

SpTotalInFlight == SpTotalFrom(1)

\* C7 as stated: the fetches in flight during one call, the avatar and thumbnail
\* fetches of all user cards counted together, never exceed 10.
C7_TotalAtMost10 == SpTotalInFlight <= 10

\* C7 as amended: the fetches in flight of any one user card never exceed 10
\* (its avatar fetch alone, then its thumbnail fetches under the card's own pool
\* of 10 permits), and the cards being generated hold the permits of the cards'
\* pool of 10.
C7_PerCardAtMost10 ==
    /\ \A c \in SpCards : SpInFlight(c) <= 10
    /\ spPhase = "gathering" =>
          Cardinality({c \in SpCards : spCard[c] \in {"avatar", "thumbs", "compose"}})
              = CardSemaphoreNum - spCardPermits

\* one card's pool is exhausted with a thumbnail still waiting, while the total
\* over the cards is above 10
C7_Witness ==
    /\ spPhase = "gathering"
    /\ \E c \in SpCards : spThumbFetching[c] = 10 /\ spThumbPending[c] > 0
    /\ SpTotalInFlight > 10

-----------------------------------------------------------------------------
(* Properties of the grid of generate_user_searching_result_image *)

\* the users whose card coroutine returned a card, in the order of users
SSurvivors == SelectSeq([c \in SCards |-> c], LAMBDA c : ~sCardSlot[c].raised)

SCardHeight == IntDiv(sWidth, sRatio)

SSpacing == SCardHeight \div 12

\* C10: a user whose card could not be produced is dropped, not substituted:
\* the grid holds exactly the k cards produced, in input order, at the
\* consecutive rows 0..k-1, and the canvas is as high as the title and k rows.
C10_DroppedNotSubstituted ==
    sPhase = "written" =>
        LET img == sImage.value
            k == Len(SSurvivors)
        IN  /\ Len(img.pastes) = k
            /\ \A j \in 1..k :
                  /\ ~sCardSlot[SSurvivors[j]].raised
                  /\ img.pastes[j].im = sCardSlot[SSurvivors[j]].value
                  /\ img.pastes[j].im.user_id = sUsers[SSurvivors[j]].user_id
                  /\ img.pastes[j].box[2] =
                        2 * SSpacing + img.title.height + (j - 1) * (SCardHeight + SSpacing)
            /\ img.size[2] = img.title.height + 3 * SSpacing + k * (SCardHeight + SSpacing)

\* two users requested, the first one's avatar fetch failed: the second one's
\* card is the only row, at row 0
C10_Witness ==
    /\ sPhase = "written"
    /\ Len(sUsers) = 2
    /\ sCardSlot[1].raised
    /\ ~sCardSlot[2].raised
    /\ Len(sImage.value.pastes) = 1
    /\ sImage.value.pastes[1].im.user_id = 2
    /\ sImage.value.pastes[1].box[2] = 2 * SSpacing + sImage.value.title.height
    /\ SSpacing > 0

-----------------------------------------------------------------------------
(* Properties of the card of _generate_user_searching_result_card *)

\* the thumbnails the card shows: the first four of the gathered list
CShown == 1..Len(Take(cThumb, 4))

CHeight == IntDiv(cWidth, cRatio)

CThumbWidth == (CHeight * 5) \div 6

CSpacing == (CHeight - CThumbWidth) \div 2

\* where tile i (from 1) belongs on the card, whatever happened to the others
CTileBox(i) ==
    <<CSpacing * 6 + CThumbWidth + (CHeight * 3) \div 2 + (i - 1) * (CThumbWidth + CSpacing),
      CSpacing>>

\* C11: when the fetch of the thumbnail at index i < 4 failed, tile i is the
\* placeholder, of the side length of a thumbnail, at the position of tile i;
\* every other thumbnail keeps its own index and position; and as long as
\* every byte string fetched can be decoded the card is produced.
C11_PlaceholderKeepsPositions ==
    cPhase = "composed" =>
        /\ cUndecodable = {} => ~cCard.raised
        /\ ~cCard.raised =>
              /\ Len(cCard.value.tiles) = Cardinality(CShown)
              /\ \A i \in CShown :
                    LET tile == cCard.value.tiles[i]
                    IN  /\ tile.size = <<CThumbWidth, CThumbWidth>>
                        /\ tile.box = CTileBox(i)
                        /\ IsException(cThumb[i]) => tile.im = "placeholder"
                        /\ ~IsException(cThumb[i]) =>
                              tile.im = <<"bytes", CardUser(Len(cThumb)).illusts_thumb_urls[i]>>

\* the fetch of the second of four thumbnails failed: the card is produced,
\* tile 2 is the placeholder and tiles 3 and 4 show thumbnails 3 and 4
C11_Witness ==
    /\ cPhase = "composed"
    /\ Len(cThumb) >= 4
    /\ IsException(cThumb[2])
    /\ \A i \in {1, 3, 4} : ~IsException(cThumb[i])
    /\ ~cCard.raised
    /\ cCard.value.tiles[2].im = "placeholder"
    /\ cCard.value.tiles[3].im = <<"bytes", <<"thumb", 1, 3>>>>
    /\ cCard.value.tiles[3].box[1] > cCard.value.tiles[2].box[1] + CThumbWidth

\* C12 as stated: when the bytes of a thumbnail that was fetched cannot be
\* decoded, the composer draws the placeholder in its place and still
\* produces the card.
C12_DecodeFailureRecovered ==
    (/\ cPhase = "composed"
     /\ 0 \notin cUndecodable
     /\ cUndecodable # {}) =>
        /\ ~cCard.raised
        /\ \A i \in cUndecodable : cCard.value.tiles[i].im = "placeholder"

-----------------------------------------------------------------------------
(* Properties of parse_pid_from_url *)

\* a run of parse_pid_from_url has returned
PidRan == xCall.fn = "parse_pid_from_url" /\ Len(xResults) >= 1

PidHttp(parts) == parts.scheme \in {"https://", "http://"}

\* a valid artwork URL of the site: path-style, or legacy query-style with its
\* optional mode parameter
IsValidArtworkUrl(parts) ==
    /\ parts.lead = ""
    /\ PidHttp(parts)
    /\ parts.host \in SiteHosts
    /\ parts.domain = "pixiv.net"
    /\ parts.id # ""
    /\ \/ parts.form \in PathForms /\ parts.tail = ""
       \/ parts.form \in LegacyForms /\ parts.tail \in {"", "&mode=medium"}

\* the text holds a path-form URL somewhere: http(s)://...pixiv.net/artworks/{id}
\* or .../i/{id}
ContainsPathForm(parts) ==
    PidHttp(parts) /\ parts.domain = "pixiv.net" /\ parts.form \in PathForms /\ parts.id # ""

\* the text holds an illust_id={n} parameter
ContainsLegacyParam(parts) ==
    parts.tail = "?illust_id=8" \/ (parts.form \in LegacyForms /\ parts.id # "")

\* the text holds neither form: no URL of the site with a path-form id or an
\* illust_id= parameter
ContainsNoForm(parts) ==
    \/ ~PidHttp(parts)
    \/ parts.domain # "pixiv.net"
    \/ ~(parts.form \in PathForms /\ parts.id # "") /\ ~ContainsLegacyParam(parts)

\* strict mode returns the id of every valid artwork URL of either shape
C13_StrictParsesValid ==
    (PidRan /\ xCall.url_mode /\ IsValidArtworkUrl(xCall.parts)) =>
        xResults[1] = Return(Some(int(xCall.parts.id)))

\* strict mode returns None for every other text: the malformed ones and those
\* of another domain
C13_StrictRejectsOthers ==
    (PidRan /\ xCall.url_mode /\ ~IsValidArtworkUrl(xCall.parts)) =>
        xResults[1] = Return(None)

\* C13 as stated: in strict mode parse_pid_from_url returns the embedded id
\* for every valid artwork URL of either shape, and None for every malformed
\* text and every text whose domain is not the site's.
C13_StrictAnchored == C13_StrictParsesValid /\ C13_StrictRejectsOthers

\* C14 as stated: for "https://x.example/pixiv.net/artworks/12345" loose
\* mode returns 12345 and strict mode returns None.
C14_LooseAcceptsStrictRejects ==
    (PidRan /\ xCall.text = "https://x.example/pixiv.net/artworks/12345") =>
        xResults[1] = IF xCall.url_mode THEN Return(None) ELSE Return(Some(12345))

-----------------------------------------------------------------------------
(* Properties of the page parsers *)

\* a run of a page parser has returned or raised
PageRan ==
    /\ xCall.fn \in {"parse_user_searching_result_page", "parse_pixivision_show_page",
                     "parse_pixivision_article_page"}
    /\ Len(xResults) >= 1

\* the anchors the parsers cannot do without: of the user-search page and its
\* user items, of the article cards, of the article page
RequiredAnchorNames ==
    {"column-header", "column-title", "count-badge", "_user-icon", "h1", "h1.a",
     "arc__title", "arc__title.a", "_thumbnail",
     "_article-main", "am__description", "am__body"}

\* no record of the returned model lacks a field that it must have
MandatoryFieldsPresent(fn, model) ==
    CASE fn = "parse_user_searching_result_page" ->
            /\ model.search_name # None
            /\ model.count # None
            /\ \A k \in 1..Len(model.users) :
                  LET u == model.users[k]
                  IN  /\ u.user_id # None /\ u.user_name # None /\ u.user_head_url # None
                      /\ u.user_illust_count # None /\ u.user_desc # None
                      /\ \A j \in 1..Len(u.illusts_thumb_urls) : u.illusts_thumb_urls[j] # None
      [] fn = "parse_pixivision_show_page" ->
            \A k \in 1..Len(model.illustrations) :
                LET i == model.illustrations[k]
                IN  /\ i.aid # None /\ i.title # None /\ i.thumbnail # None /\ i.url # None
                    /\ \A j \in 1..Len(i.tags) :
                          /\ i.tags[j].tag_id # None
                          /\ i.tags[j].tag_name # None
                          /\ i.tags[j].tag_url # None
      [] fn = "parse_pixivision_article_page" ->
            /\ model.title # None
            /\ model.description # None
            /\ \A k \in 1..Len(model.artwork_list) :
                  LET w == model.artwork_list[k]
                  IN  /\ w.artwork_id # None /\ w.artwork_user # None
                      /\ w.artwork_title # None /\ w.artwork_url # None /\ w.image_url # None
            /\ \A j \in 1..Len(model.tags_list) :
                  /\ model.tags_list[j].tag_id # None
                  /\ model.tags_list[j].tag_name # None
                  /\ model.tags_list[j].tag_url # None

\* C16: when the document lacks a required anchor the parse call fails and
\* returns no entity, and no model that a parse call returns holds a record
\* with a mandatory field absent.
C16_MissingAnchorFails ==
    PageRan =>
        /\ (\E a \in xCall.content.missing : a.anchor \in RequiredAnchorNames) =>
              xResults[1].raised
        /\ ~xResults[1].raised => MandatoryFieldsPresent(xCall.fn, xResults[1].value)

\* the second of two user items has no avatar link: the call fails
C16_Witness ==
    /\ PageRan
    /\ xCall.fn = "parse_user_searching_result_page"
    /\ xCall.content.items = 2
    /\ xCall.content.missing = {Anchor("_user-icon", 2, 0)}
    /\ xResults[1].raised

\* the nested items of the document that cannot be parsed: a tag without a link
\* or without href, a thumbnail without data-src
NestedDefectNames == {"tag.a", "tag.a@href", "tag@href", "thumb.a@data-src"}

\* the length of the nested list of item k (0: of the page) in a returned model
NestedLength(fn, model, k) ==
    CASE fn = "parse_user_searching_result_page" -> Len(model.users[k].illusts_thumb_urls)
      [] fn = "parse_pixivision_show_page" -> Len(model.illustrations[k].tags)
      [] fn = "parse_pixivision_article_page" -> Len(model.tags_list)

\* the nested items of item k that cannot be parsed
BadNested(doc, k) ==
    {j \in 1..doc.subs : \E a \in doc.missing : a.item = k /\ a.sub = j}

\* a thumbnail without data-src is left out of the thumbnails of its user, the
\* other thumbnails and the user are returned
C17_ThumbnailsLeftOut ==
    (/\ PageRan
     /\ xCall.fn = "parse_user_searching_result_page"
     /\ xCall.content.missing # {}
     /\ \A a \in xCall.content.missing : a.anchor = "thumb.a@data-src") =>
        /\ ~xResults[1].raised
        /\ \A k \in 1..xCall.content.items :
              NestedLength(xCall.fn, xResults[1].value, k)
                  = xCall.content.subs - Cardinality(BadNested(xCall.content, k))

\* C17 as stated: a nested item that cannot be parsed is left out of its
\* nested list, the enclosing record and its other nested items are returned,
\* and the parse call does not fail.
C17_NestedItemsIndependent ==
    (/\ PageRan
     /\ xCall.content.missing # {}
     /\ \A a \in xCall.content.missing : a.anchor \in NestedDefectNames) =>
        /\ ~xResults[1].raised
        /\ \A k \in (IF xCall.fn = "parse_pixivision_article_page" THEN {0}
                     ELSE 1..xCall.content.items) :
              NestedLength(xCall.fn, xResults[1].value, k)
                  = xCall.content.subs - Cardinality(BadNested(xCall.content, k))

ArticleRan == xCall.fn = "parse_pixivision_article_page" /\ Len(xResults) >= 1

\* the description of a returned article is the text of the feature paragraph
\* exactly when the am__body holds the feature container, and the text of the
\* standard description otherwise
C18_DescriptionByLayout ==
    (ArticleRan /\ ~xResults[1].raised) =>
        xResults[1].value.description =
            IF xCall.content.feature THEN TextAt("fab__paragraph", 0, 0)
            ELSE TextAt("am__description", 0, 0)

\* C18 as stated: the layout decides the anchor of the description, and a
\* feature-layout document that has the feature anchor is parsed whether or
\* not it has the standard description anchor.
C18_LayoutByStructure ==
    /\ C18_DescriptionByLayout
    /\ (/\ ArticleRan
        /\ xCall.content.feature
        /\ xCall.content.missing \subseteq {Anchor("am__description", 0, 0)}) =>
          ~xResults[1].raised

-----------------------------------------------------------------------------
(* The extractors as functions of their arguments *)

-----------------------------------------------------------------------------
(* The canvas of generate_user_searching_result_image *)

\* the header: the measured height of the title and the margins around it
SHeaderHeight(img) == img.title.height + 3 * SSpacing

\* C20: the canvas is as high as the header, derived from the measured height
\* of the title, and one row of card height plus spacing per card produced.
C20_CanvasHeight ==
    sPhase = "written" =>
        LET img == sImage.value
            rows == Len(img.pastes)
        IN  /\ rows = Len(SSurvivors)
            /\ img.size[2] = SHeaderHeight(img) + rows * (SCardHeight + SSpacing)

\* two users, one card produced, a title 44 high: the canvas has one row
C20_Witness ==
    /\ sPhase = "written"
    /\ Len(sUsers) = 2
    /\ Len(SSurvivors) = 1
    /\ sImage.value.title.height = 44
    /\ sImage.value.size[2] = 44 + 3 * SSpacing + SCardHeight + SSpacing


-----------------------------------------------------------------------------
(* The image of a search that produced no card *)

\* C21: with no card to paste (no user was asked for, or no card coroutine
\* returned a card) the call does not raise: the image written is a canvas of
\* positive width and height that holds the title header and nothing else.
C21_NoCardsHeaderOnly ==
    (sPhase = "written" /\ Len(SSurvivors) = 0) =>
        /\ ~sImage.raised
        /\ sImage.value.size[1] > 0
        /\ sImage.value.size[2] > 0
        /\ sImage.value.pastes = <<>>
        /\ sImage.value.title.height > 0
        /\ sImage.value.size[2] = SHeaderHeight(sImage.value)

\* two users asked for, neither card produced, the image written
C21_Witness ==
    /\ sPhase = "written"
    /\ Len(sUsers) = 2
    /\ \A c \in SCards : sCardSlot[c].raised
    /\ sImage.value.pastes = <<>>
    /\ sImage.value.size[2] > 0

\* the search result held no user at all, the image written
C21_EmptyUserListWritten ==
    /\ sPhase = "written"
    /\ Len(sUsers) = 0
    /\ sImage.value.pastes = <<>>


-----------------------------------------------------------------------------
(* The file names of generate_user_searching_result_image *)

\* two invocations for the same search name that built their file names in
\* different seconds have different file names
C22_DistinctAcrossSeconds ==
    \A i, j \in FileCalls :
        (/\ i # j
         /\ fCalls[i].pc # "composing" /\ fCalls[j].pc # "composing"
         /\ fCalls[i].search_name = fCalls[j].search_name
         /\ strftime(fCalls[i].named_at) # strftime(fCalls[j].named_at))
            => fCalls[i].image_file_name # fCalls[j].image_file_name

\* C22 as stated: two invocations with the same search name never write to
\* the same file name.
C22_DistinctFileNames ==
    \A i, j \in FileCalls :
        (/\ i # j
         /\ fCalls[i].pc # "composing" /\ fCalls[j].pc # "composing"
         /\ fCalls[i].search_name = fCalls[j].search_name)
            => fCalls[i].image_file_name # fCalls[j].image_file_name

\* an invocation that wrote its image still finds it in the folder
C22_NoArtifactOverwritten ==
    \A i \in FileCalls :
        fCalls[i].pc = "written" =>
            [name |-> fCalls[i].image_file_name, content |-> i] \in fFolder


-----------------------------------------------------------------------------
(* The results of _get_pixiv_resource *)

\* C25: a call hands back bytes only for a response with a success status, and
\* then the bytes of that response; for every response with another status it
\* raises PixivNetworkError carrying that status, and hands back nothing.
C25_BytesOnlyOnSuccess ==
    \A k \in 1..Len(rLog) :
        LET _content == rLog[k].content
            result == rLog[k].result
        IN  /\ ~result.raised =>
                  /\ _content.kind = "response"
                  /\ _content.status \in SuccessStatuses
                  /\ result.value = _content.result
            /\ (_content.kind = "response" /\ _content.status \notin SuccessStatuses) =>
                  /\ result.raised
                  /\ result.error = <<"PixivNetworkError", _content.status>>

\* one call answered with status 404 raised PixivNetworkError with 404, the
\* next one answered with status 200 returned the bytes
C25_Witness ==
    /\ Len(rLog) = 2
    /\ rLog[1].content.kind = "response"
    /\ rLog[1].content.status = 404
    /\ rLog[1].result = Raise(<<"PixivNetworkError", 404>>)
    /\ rLog[2].content.kind = "response"
    /\ rLog[2].content.status = 200
    /\ rLog[2].result = Return(<<"bytes", rLog[2].url>>)


-----------------------------------------------------------------------------
(* The layout of the card of _generate_user_searching_result_card *)

\* C23: every dimension of the card follows from its height H = int(W / ratio)
\* alone: the avatar and the thumbnails are int(5H/6) wide and high, the
\* spacing is int((H - avatar side) / 2), the main font int(H/8), the
\* description font int(H/12), the description is wrapped at int(1.5 H).
C23_LayoutFromHeight ==
    (cPhase = "composed" /\ ~cCard.raised) =>
        LET card == cCard.value
            H == (cWidth * cRatio[2]) \div cRatio[1]
            side == (5 * H) \div 6
        IN  /\ card.size = <<cWidth, H>>
            /\ card.layout.user_head_width = side
            /\ card.layout.thumb_img_width = side
            /\ card.layout.spacing_width = (H - side) \div 2
            /\ card.layout.font_main_size = H \div 8
            /\ card.layout.font_desc_size = H \div 12
            /\ card.layout.desc_wrap_width = (3 * H) \div 2
            /\ card.head.size = <<side, side>>
            /\ \A i \in 1..Len(card.tiles) : card.tiles[i].size = <<side, side>>

\* a card 400 wide: 59 high, avatar and four thumbnails 49 wide, spacing 5,
\* fonts 7 and 4, description wrapped at 88
C23_Witness ==
    /\ cPhase = "composed"
    /\ ~cCard.raised
    /\ cWidth = 400
    /\ cCard.value.size = <<400, 59>>
    /\ cCard.value.layout.user_head_width = 49
    /\ cCard.value.layout.spacing_width = 5
    /\ cCard.value.layout.font_main_size = 7
    /\ cCard.value.layout.font_desc_size = 4
    /\ cCard.value.layout.desc_wrap_width = 88
    /\ Len(cCard.value.tiles) = 4

\* C24: the name, the UID line, the count line and the description are placed
\* one below the other: each block starts at or below the start of the block
\* before it plus the measured height of that block, so the blocks never
\* overlap vertically.
C24_TextBlocksAdditive ==
    (cPhase = "composed" /\ ~cCard.raised) =>
        LET texts == cCard.value.texts
        IN  /\ cCard.value.layout.spacing_width >= 0
            /\ texts.uid.xy[2] >= texts.name.xy[2] + texts.name.height
            /\ texts.count.xy[2] >= texts.uid.xy[2] + texts.uid.height
            /\ texts.desc.xy[2] >= texts.count.xy[2] + texts.count.height

\* a card 400 wide with a name measured 40 high and a UID line measured 1 high:
\* the UID line starts below the name, the count line right below the UID line
C24_Witness ==
    /\ cPhase = "composed"
    /\ ~cCard.raised
    /\ cWidth = 400
    /\ cCard.value.texts.name.height = 40
    /\ cCard.value.texts.uid.height = 1
    /\ cCard.value.texts.count.height = 40
    /\ cCard.value.texts.name.xy[2] = 7
    /\ cCard.value.texts.uid.xy[2] = 48
    /\ cCard.value.texts.count.xy[2] = 52
    /\ cCard.value.texts.desc.xy[2] = 94

\* the smaller of two numbers
Min(a, b) == IF a <= b THEN a ELSE b

\* the card composed from the first four thumbnails alone, measured as the
\* card that was composed
CardOfFirstFour ==
    _handle_generate_card(CardUser(Len(cThumb)), cWidth, cRatio, CardHead, Take(cThumb, 4),
                          cUndecodable,
                          [name_h |-> cCard.value.texts.name.height,
                           uid_h |-> cCard.value.texts.uid.height,
                           count_h |-> cCard.value.texts.count.height])

\* C26: a card shows min(4, number of thumbnail urls) tiles, tile i made from
\* the i-th url of the user's list; a fifth or later url gives no tile and
\* moves none: the card is the one the first four urls alone would give.
C26_FirstFourTiles ==
    (cPhase = "composed" /\ ~cCard.raised) =>
        LET tiles == cCard.value.tiles
            urls == CardUser(Len(cThumb)).illusts_thumb_urls
        IN  /\ Len(urls) = Len(cThumb)
            /\ Len(tiles) = Min(4, Len(urls))
            /\ \A i \in 1..Len(tiles) :
                  IF IsException(cThumb[i]) THEN tiles[i].im = "placeholder"
                  ELSE tiles[i].im = <<"bytes", urls[i]>>
            /\ \A i \in 1..Len(tiles) : \A j \in 1..Len(tiles) :
                  i < j => tiles[i].box[1] < tiles[j].box[1]
            /\ cCard = CardOfFirstFour

\* five thumbnail urls, all fetched: four tiles, of the urls 1 to 4
C26_Witness ==
    /\ cPhase = "composed"
    /\ ~cCard.raised
    /\ Len(cThumb) = 5
    /\ \A i \in 1..5 : ~IsException(cThumb[i])
    /\ Len(cCard.value.tiles) = 4
    /\ \A i \in 1..4 : cCard.value.tiles[i].im = <<"bytes", <<"thumb", 1, i>>>>


-----------------------------------------------------------------------------
(* Strict and loose matching of parse_pid_from_url on the same text *)

\* the call ran in strict mode and returned an id
StrictAnswered ==
    /\ PidRan
    /\ xCall.url_mode
    /\ ~xResults[1].raised
    /\ ~xResults[1].value.is_none

\* where strict mode returns an id, loose mode returns an id as well
C27_LooseAnswersWhereStrictDoes ==
    StrictAnswered => ~parse_pid_from_url(xCall.text, FALSE).value.is_none

\* C27 as stated: for every text on which strict mode returns an id n, loose
\* mode returns n on the same text.
C27_StrictAgreesWithLoose ==
    StrictAnswered => parse_pid_from_url(xCall.text, FALSE) = xResults[1]


-----------------------------------------------------------------------------
(* The avatar fetch and the thumbnail fetches of a card *)

\* the avatar fetch of card c raised: the card coroutine ended in the
\* exception of line 215
SAvatarFailed(c) ==
    /\ sCard[c] = "done"
    /\ sCardSlot[c].raised
    /\ sCardSlot[c].error[1] \in {"PixivNetworkError", "TransportError"}

\* the avatar fetch of card c returned the bytes: the card coroutine is past
\* line 215
SAvatarFetched(c) ==
    /\ sCard[c] \in {"thumbs", "compose", "done"}
    /\ ~SAvatarFailed(c)
    /\ sHead[c] = Return(<<"bytes", sUsers[c].user_head_url>>)

\* C28: a thumbnail fetch of a user is issued only after the avatar fetch of
\* that user returned; when the avatar fetch fails no thumbnail fetch of the
\* user is ever issued and the user has no card in the grid, while the cards
\* produced for the other users are pasted and the image is written.
C28_AvatarBeforeThumbnails ==
    /\ \A c \in SCards : \A i \in SThumbs(c) :
          sThumb[c][i] # "pending" => SAvatarFetched(c)
    /\ \A c \in SCards :
          SAvatarFailed(c) => \A i \in SThumbs(c) :
                                 sThumb[c][i] = "pending" /\ sThumbSlot[c][i] = NoResult
    /\ sPhase = "written" =>
          /\ ~sImage.raised
          /\ \A c \in SCards :
                SAvatarFailed(c) =>
                    \A j \in 1..Len(sImage.value.pastes) :
                        sImage.value.pastes[j].im.user_id # sUsers[c].user_id
          /\ \A c \in SCards :
                ~sCardSlot[c].raised =>
                    \E j \in 1..Len(sImage.value.pastes) :
                        sImage.value.pastes[j].im = sCardSlot[c].value

\* two users with a thumbnail url each: the avatar fetch of the first failed
\* and its thumbnail was never fetched; the second one's thumbnail was fetched
\* after its avatar, and its card is the only one in the image written
C28_Witness ==
    /\ sPhase = "written"
    /\ Len(sUsers) = 2
    /\ SAvatarFailed(1)
    /\ SThumbs(1) # {}
    /\ \A i \in SThumbs(1) : sThumb[1][i] = "pending"
    /\ SAvatarFetched(2)
    /\ SThumbs(2) # {}
    /\ \A i \in SThumbs(2) : sThumb[2][i] = "done"
    /\ Len(sImage.value.pastes) = 1
    /\ sImage.value.pastes[1].im.user_id = 2


-----------------------------------------------------------------------------
(* The cards on the canvas of generate_user_searching_result_image *)

\* C29: every card pasted lies inside the canvas, at or below the bottom of
\* the title, and the cards do not overlap: card i ends at or before the right
\* and the lower edge of the canvas, and card i + 1 starts at or below the
\* lower edge of card i.
C29_CardsInsideCanvas ==
    sPhase = "written" =>
        LET img == sImage.value
            n == Len(img.pastes)
        IN  \A i \in 1..n :
                LET card == img.pastes[i].im
                    box == img.pastes[i].box
                IN  /\ box[1] >= 0
                    /\ box[1] + card.size[1] <= img.size[1]
                    /\ box[2] + card.size[2] <= img.size[2]
                    /\ box[2] >= img.title.xy[2] + img.title.height
                    /\ i < n => img.pastes[i + 1].box[2] >= box[2] + card.size[2]

\* two cards on the canvas, the second below the first, under a title 44 high
C29_Witness ==
    /\ sPhase = "written"
    /\ Len(sImage.value.pastes) = 2
    /\ sImage.value.title.height = 44
    /\ sImage.value.pastes[1].box[2] >= sImage.value.title.xy[2] + 44
    /\ sImage.value.pastes[2].box[2] >=
          sImage.value.pastes[1].box[2] + sImage.value.pastes[1].im.size[2]
    /\ sImage.value.pastes[2].box[2] + sImage.value.pastes[2].im.size[2]
          <= sImage.value.size[2]

=============================================================================
